---------------------------- MODULE Spec2Model ----------------------------
(***************************************************************************)
(* A model of the four pipeline scripts of the repository:                 *)
(*   scripts/Crawling_and_Scraping.py    (scrape pages, extract reports)   *)
(*   scripts/Download_Reports.py         (parse dates, download PDFs)      *)
(*   scripts/Extraction_Financial_Data.py (send PDFs to the service)       *)
(*   scripts/StreamlitUI.py              (dashboard)                       *)
(*                                                                         *)
(* Python strings are modelled as sequences of one-character strings, so   *)
(* that regular-expression matching, splitting and parsing are computed    *)
(* character by character as the code computes them.                       *)
(***************************************************************************)
EXTENDS Integers, Sequences, FiniteSets, TLC

VARIABLES
    \* ---- Download_Reports.parse_date called on one string
    date_str,       \* the argument of parse_date
    pd_result,      \* what the call produced (pending before the call)
    \* ---- Download_Reports.main
    dl_now,         \* datetime.now() taken at line 86
    dl_rows,        \* the rows of the CSV file (df)
    dl_idx,         \* number of rows the for loop has finished with
    dl_examined,    \* indexes of the rows that reached the date filter
    dl_attempted,   \* indexes of the rows handed to download_pdf, in order
    dl_stats,       \* the stats dictionary
    dl_files,       \* output paths written by download_pdf, in order
    dl_summary,     \* TRUE once the download summary has been printed
    dl_pc,          \* "start", "loop", "done", "aborted"
    \* ---- Crawling_and_Scraping.main
    sc_idx,         \* number of COMPANY_URLS the first loop has finished with
    sc_calls,       \* the urls posted to the scraping service, in order
    sc_disk,        \* the writes of markdown files, in order: file and content
    markdown_files, \* list built by step 1
    sc_xidx,        \* number of markdown files step 2 has finished with
    all_reports,    \* list built by step 2
    sc_csv,         \* the consolidated CSV written by step 3 (<<>> if none)
    sc_pc,          \* "scrape", "extract", "write", "done", "crashed"
    \* ---- Crawling_and_Scraping.extract_quarterly_reports on one table
    eq_rows,        \* the <tr> rows of the quarterly tab
    eq_idx,         \* number of rows the for loop has finished with
    reports,        \* the reports list
    eq_src,         \* for each report, the index of the row it came from
    \* ---- Extraction_Financial_Data.process_pdfs
    pdf_files,      \* the listing of PDF_DIR (each file with what the service answers)
    pp_idx,         \* number of files the for loop has finished with
    pp_log,         \* events in order: service calls and sleeps
    results,        \* the results list
    pp_pc,          \* "loop", "done"
    \* ---- one call of a function of Extraction_Financial_Data or StreamlitUI
    fn_arg,         \* the arguments of the call
    fn_result,      \* what the call produced (pending before the call)
    \* ---- one browser session of StreamlitUI
    ss_df,          \* st.session_state.df (None if the CSV could not be read)
    ss_page,        \* st.session_state.page
    ss_pc,          \* "run": a script run is due, "plots": the dashboard is
                    \* drawing, "wait": the run is over, "failed": it raised
    messages,       \* st.session_state.messages
    used_keys,      \* st.session_state.used_keys
    key_counter,    \* st.session_state.key_counter
    uk_prefix,      \* the get_unique_key call in progress and its prefix
    uk_iter,        \* iterations of its "while True" so far
    uk_returned     \* the keys get_unique_key has returned, in order

pdVars == <<date_str, pd_result>>
dlVars == <<dl_now, dl_rows, dl_idx, dl_examined, dl_attempted, dl_stats,
            dl_files, dl_summary, dl_pc>>
scVars == <<sc_idx, sc_calls, sc_disk, markdown_files, sc_xidx, all_reports,
            sc_csv, sc_pc>>
eqVars == <<eq_rows, eq_idx, reports, eq_src>>
ppVars == <<pdf_files, pp_idx, pp_log, results, pp_pc>>
fnVars == <<fn_arg, fn_result>>
ssVars == <<ss_df, ss_page, ss_pc, messages, used_keys, key_counter,
            uk_prefix, uk_iter, uk_returned>>
vars == <<pdVars, dlVars, scVars, eqVars, ppVars, fnVars, ssVars>>

\* the components that are not running keep their state
Frame(running) ==
    /\ IF running = "parse_date" THEN TRUE ELSE UNCHANGED pdVars
    /\ IF running = "download" THEN TRUE ELSE UNCHANGED dlVars
    /\ IF running = "scrape" THEN TRUE ELSE UNCHANGED scVars
    /\ IF running = "extract_reports" THEN TRUE ELSE UNCHANGED eqVars
    /\ IF running = "process_pdfs" THEN TRUE ELSE UNCHANGED ppVars
    /\ IF running = "calls" THEN TRUE ELSE UNCHANGED fnVars
    /\ IF running = "session" THEN TRUE ELSE UNCHANGED ssVars

-----------------------------------------------------------------------------
(* Python values and strings                                               *)

\* Python's None
None == [kind |-> "none"]

\* a float NaN, what pandas.read_csv yields for an empty cell: the one value
\* of the model that stands where a string is expected and is not a string
NaN == <<"NaN">>

Digits == {"0","1","2","3","4","5","6","7","8","9"}

Letters ==
    {"a","b","c","d","e","f","g","h","i","j","k","l","m","n","o","p","q","r",
     "s","t","u","v","w","x","y","z","A","B","C","D","E","F","G","H","I","J",
     "K","L","M","N","O","P","Q","R","S","T","U","V","W","X","Y","Z"}

\* int() of one decimal digit
DigitVal(c) ==
    CASE c = "0" -> 0 [] c = "1" -> 1 [] c = "2" -> 2 [] c = "3" -> 3
      [] c = "4" -> 4 [] c = "5" -> 5 [] c = "6" -> 6 [] c = "7" -> 7
      [] c = "8" -> 8 [] c = "9" -> 9

\* int(s) for a string of decimal digits
RECURSIVE IntOf(_)
IntOf(s) ==
    IF s = <<>> THEN 0
    ELSE 10 * IntOf(SubSeq(s, 1, Len(s) - 1)) + DigitVal(s[Len(s)])

AllDigits(s) == \A i \in 1..Len(s) : s[i] \in Digits

\* s.startswith(p)
StartsWith(s, p) == Len(s) >= Len(p) /\ SubSeq(s, 1, Len(p)) = p

\* s.endswith(p)
EndsWith(s, p) ==
    Len(s) >= Len(p) /\ SubSeq(s, Len(s) - Len(p) + 1, Len(s)) = p

\* p in s
Contains(s, p) ==
    \E i \in 1..(Len(s) - Len(p) + 1) : SubSeq(s, i, i + Len(p) - 1) = p

\* s.split(sep) for a non-empty separator sep
RECURSIVE Split(_, _)
Split(s, sep) ==
    IF ~Contains(s, sep) THEN <<s>>
    ELSE LET At(i) == SubSeq(s, i, i + Len(sep) - 1) = sep
             k == CHOOSE i \in 1..(Len(s) - Len(sep) + 1) :
                      At(i) /\ \A j \in 1..(i - 1) : ~At(j)
         IN <<SubSeq(s, 1, k - 1)>>
                \o Split(SubSeq(s, k + Len(sep), Len(s)), sep)

\* s.split(c) for a one-character separator c
SplitOn(s, c) == Split(s, <<c>>)

\* the elements of a list that are not the empty string, in order
RECURSIVE NonEmpty(_)
NonEmpty(l) ==
    IF l = <<>> THEN <<>>
    ELSE IF Head(l) = <<>> THEN NonEmpty(Tail(l))
    ELSE <<Head(l)>> \o NonEmpty(Tail(l))

\* s.split(): the maximal runs of characters that are not whitespace
SplitWords(s) ==
    NonEmpty(SplitOn([i \in 1..Len(s) |->
                         IF s[i] \in {"\t", "\n"} THEN " " ELSE s[i]], " "))

\* str(n) for n >= 0
RECURSIVE StrOfInt(_)
StrOfInt(n) ==
    LET d == <<"0","1","2","3","4","5","6","7","8","9">>
    IN IF n < 10 THEN <<d[n + 1]>>
       ELSE StrOfInt(n \div 10) \o <<d[(n % 10) + 1]>>

-----------------------------------------------------------------------------
(* The calendar of datetime.datetime                                       *)

IsLeap(y) == (y % 4 = 0) /\ ((y % 100 # 0) \/ (y % 400 = 0))

DaysInMonth(y, m) ==
    IF m = 2 THEN (IF IsLeap(y) THEN 29 ELSE 28)
    ELSE IF m \in {4, 6, 9, 11} THEN 30 ELSE 31

\* whether datetime(y, m, d) is constructed rather than raising ValueError
ValidDate(y, m, d) ==
    /\ y \in 1..9999
    /\ m \in 1..12
    /\ d \in 1..DaysInMonth(y, m)

Date(y, m, d) == [kind |-> "date", year |-> y, month |-> m, day |-> d]

Raise(e) == [kind |-> "raise", exc |-> e]

\* datetime(y, m, d)
MkDatetime(y, m, d) ==
    IF ValidDate(y, m, d) THEN Date(y, m, d) ELSE Raise("ValueError")

RECURSIVE DaysBeforeMonth(_, _)
DaysBeforeMonth(y, m) ==
    IF m = 1 THEN 0 ELSE DaysBeforeMonth(y, m - 1) + DaysInMonth(y, m - 1)

\* date.toordinal(): 1 for 0001-01-01
Ordinal(dt) ==
    LET y1 == dt.year - 1
    IN y1 * 365 + (y1 \div 4) - (y1 \div 100) + (y1 \div 400)
       + DaysBeforeMonth(dt.year, dt.month) + dt.day

-----------------------------------------------------------------------------
(* Download_Reports.parse_date                                             *)

\* The four regular expressions of date_formats, one element per character
\* matched: "\\d" is the class \d, "\\w" the class \w, "[AP]" the class [AP],
\* anything else the character itself. Every quantifier of the source is a
\* fixed repetition, so each pattern matches a fixed number of characters.
date_formats ==
    << <<"\\d","\\d"," ","\\w","\\w","\\w"," ","\\d","\\d","\\d","\\d",
         "\\d","\\d",":","\\d","\\d"," ","[AP]","M">>,
       <<"\\d","\\d"," ","\\w","\\w","\\w"," ","\\d","\\d","\\d","\\d"," ",
         "\\d","\\d",":","\\d","\\d"," ","[AP]","M">>,
       <<"\\d","\\d","-","\\w","\\w","\\w","-","\\d","\\d","\\d","\\d">>,
       <<"\\d","\\d","/","\\d","\\d","/","\\d","\\d","\\d","\\d">> >>

\* the capture groups of each pattern, as first and last position
date_groups ==
    << [day |-> <<1, 2>>, month |-> <<4, 6>>, year |-> <<8, 11>>,
        hour |-> <<12, 13>>],
       [day |-> <<1, 2>>, month |-> <<4, 6>>, year |-> <<8, 11>>,
        hour |-> <<13, 14>>],
       [day |-> <<1, 2>>, month |-> <<4, 6>>, year |-> <<8, 11>>],
       [day |-> <<1, 2>>, month |-> <<4, 5>>, year |-> <<7, 10>>] >>

\* whether character c is matched by pattern element e
ClassMatch(e, c) ==
    CASE e = "\\d"  -> c \in Digits
      [] e = "\\w"  -> c \in Digits \cup Letters \cup {"_"}
      [] e = "[AP]" -> c \in {"A", "P"}
      [] OTHER      -> c = e

\* re.match(pattern, s): the pattern matches a prefix of s
ReMatch(pattern, s) ==
    /\ Len(s) >= Len(pattern)
    /\ \A i \in 1..Len(pattern) : ClassMatch(pattern[i], s[i])

\* match.group: s[a:b] with 1-based inclusive positions
Group(s, g) == SubSeq(s, g[1], g[2])

\* the list months of line 45
month_list ==
    << <<"J","a","n">>, <<"F","e","b">>, <<"M","a","r">>, <<"A","p","r">>, <<"M","a","y">>, <<"J","u","n">>,
       <<"J","u","l">>, <<"A","u","g">>, <<"S","e","p">>, <<"O","c","t">>, <<"N","o","v">>, <<"D","e","c">> >>

\* the dictionary months of line 50: month name -> number
MonthNumber(month_str) ==
    CHOOSE k \in 1..12 : month_list[k] = month_str

InMonths(month_str) == \E k \in 1..12 : month_list[k] = month_str

\* months[int(month) - 1] on the list of line 45 raises IndexError for an
\* index beyond the list
MonthListRaises(month) == IntOf(month) - 1 >= 12

\* the lookup months[int(month)] in place of months[int(month) - 1]
MonthListLookup_NoOffset(month) ==
    month_list[(IntOf(month) % 12) + 1]

\* months[int(month) - 1]: index -1 is the last element of the list
MonthListLookup(month) ==
    LET idx == IntOf(month) - 1
    IN IF idx < 0 THEN month_list[12 + idx + 1] ELSE month_list[idx + 1]

\* the split with the year cut to two characters
SplitYearHour_TwoDigitYear(year, hour) ==
    [year |-> SubSeq(year, 1, 2), hour |-> hour]

\* lines 34-36: the split of a year token longer than four characters; the
\* hour is cut from the year after the year has been cut to four characters
SplitYearHour(year, hour) ==
    IF Len(year) > 4
    THEN LET y4 == SubSeq(year, 1, 4)
         IN [year |-> y4, hour |-> SubSeq(y4, 5, Len(y4))]
    ELSE [year |-> year, hour |-> hour]

\* lines 30-47: the month name of a match of pattern i
MonthStrOf(s, i) ==
    IF i = 4 THEN MonthListLookup(Group(s, date_groups[i].month))
    ELSE Group(s, date_groups[i].month)

\* lines 30-36: the year token of a match of pattern i
YearOf(s, i) ==
    IF i = 1
    THEN SplitYearHour(Group(s, date_groups[i].year),
                       Group(s, date_groups[i].hour)).year
    ELSE Group(s, date_groups[i].year)

\* lines 27-58: the loop over date_formats, from pattern i on
RECURSIVE ParseFrom(_, _)
ParseFrom(s, i) ==
    IF i > Len(date_formats) THEN None
    ELSE IF ~ReMatch(date_formats[i], s) THEN ParseFrom(s, i + 1)
    ELSE IF i = 4 /\ MonthListRaises(Group(s, date_groups[i].month))
    THEN Raise("IndexError")
    ELSE LET month_str == MonthStrOf(s, i)
         IN IF InMonths(month_str)
            THEN MkDatetime(IntOf(YearOf(s, i)), MonthNumber(month_str),
                            IntOf(Group(s, date_groups[i].day)))
            ELSE ParseFrom(s, i + 1)

\* parse_date(date_str): a date, None, or the exception that leaves it.
\* re.match raises TypeError for an argument that is not a string.
parse_date(s) ==
    IF s = NaN THEN Raise("TypeError") ELSE ParseFrom(s, 1)

-----------------------------------------------------------------------------
(* Strings handed to parse_date                                            *)

PdParts ==
    [ Days |-> {<<"0","0">>, <<"0","9">>, <<"2","9">>, <<"3","0">>, <<"3","1">>},
      MonthNames |->
          {<<"J","a","n">>,
          <<"F","e","b">>,
          <<"J","u","n">>,
          <<"D","e","c">>,
          <<"j","u","n">>,
          <<"X","y","z">>},
      MonthNums |-> {<<"0","0">>, <<"0","2">>, <<"0","6">>, <<"1","2">>, <<"1","3">>},
      Years |->
          {<<"0","0","0","0">>,
          <<"2","0","2","0">>,
          <<"2","0","2","1">>},
      Times |->
          {<<"1","1",":","1","9"," ","P","M">>,
          <<"0","9",":","0","5"," ","A","M">>},
      Other |->
          {<<"n","o","t"," ","a"," ","d","a","t","e">>,
          <<"2","0","2","0","-","0","6","-","3","0">>,
          <<"2","0","2","0","-","0","2","-","2","9">>,
          <<"2","0","2","1","-","1","2","-","3","1">>,
          <<"3","0","/","0","6","/","2","0","2","0"," ","(","r","e","v","i","s","e","d",")">>, <<>>} ]

\* every combination of the parts above in each of the four patterns, and
\* strings of no pattern
DateInputs ==
    {d \o <<" ">> \o m \o <<" ">> \o y \o t :
        d \in PdParts.Days, m \in PdParts.MonthNames, y \in PdParts.Years, t \in PdParts.Times}
    \cup {d \o <<" ">> \o m \o <<" ">> \o y \o <<" ">> \o t :
        d \in PdParts.Days, m \in PdParts.MonthNames, y \in PdParts.Years, t \in PdParts.Times}
    \cup {d \o <<"-">> \o m \o <<"-">> \o y :
        d \in PdParts.Days, m \in PdParts.MonthNames, y \in PdParts.Years}
    \cup {d \o <<"/">> \o m \o <<"/">> \o y :
        d \in PdParts.Days, m \in PdParts.MonthNums, y \in PdParts.Years}
    \cup PdParts.Other

Pending == [kind |-> "pending"]

-----------------------------------------------------------------------------
(* Download_Reports: sanitize_filename, download_pdf, main                 *)

YEARS_TO_FETCH == 5

\* the characters of invalid_chars, line 63
invalid_chars == {"<", ">", ":", "\"", "/", "\\", "|", "?", "*"}

\* sanitize_filename: every invalid character replaced by an underscore
sanitize_filename(filename) ==
    [i \in 1..Len(filename) |->
        IF filename[i] \in invalid_chars THEN "_" ELSE filename[i]]

\* line 119: f"{company_symbol}_{sanitize_filename(report_text)}.pdf"; the
\* output path is this name under the fixed directory OUTPUT_DIR
OutputPath(row) ==
    row.company_symbol \o <<"_">> \o sanitize_filename(row.report_text)
        \o <<".","p","d","f">>

\* what requests.get does in download_pdf: status 200, another status, or an
\* exception; download_pdf returns True for the first and False otherwise
DownloadOutcomes == {"ok", "status", "exception"}

download_pdf(outcome) == outcome = "ok"

\* line 87: today - timedelta(days=365 * YEARS_TO_FETCH), as (ordinal, second
\* of the day); the time of day of now is kept by the subtraction
CutoffOf(now) ==
    [ord |-> Ordinal(now.date) - 365 * YEARS_TO_FETCH, tod |-> now.tod]

\* the comparison of the days alone, the time of day of the cutoff left out
NotBeforeCutoff_DayOnly(report_date, now) ==
    Ordinal(report_date) >= CutoffOf(now).ord

\* line 115: report_date >= cutoff_date; parse_date returns midnight of the day
NotBeforeCutoff(report_date, now) ==
    LET c == CutoffOf(now)
    IN IF Ordinal(report_date) = c.ord THEN 0 >= c.tod
       ELSE Ordinal(report_date) > c.ord

\* line 115: not report_date or report_date >= cutoff_date
WithinRange(report_date, now) ==
    IF report_date = None THEN TRUE ELSE NotBeforeCutoff(report_date, now)

\* ---- the inputs of main

MaxDlRows == 2

\* the rows of the report table. Upload dates: recent, on the day of the
\* cutoff, before the cutoff, of no pattern, an impossible day, an empty cell
DlRowSet ==
    [company_symbol : {<<"D","I","P","D",".","N","0","0","0","0">>},
     report_text :
         {<<"I","n","t","e","r","i","m"," ","3","1","/","0","3","/","2","0","2","1">>,
          <<"I","n","t","e","r","i","m"," ","3","1",":","0","3",":","2","0","2","1">>},
     date_uploaded :
         {<<"0","9"," ","F","e","b"," ","2","0","2","5","1","1",":","1","9"," ","P","M">>,
          <<"3","0"," ","J","u","n"," ","2","0","2","0","1","1",":","1","9"," ","P","M">>,
          <<"2","9","-","F","e","b","-","2","0","2","0">>,
          <<"n","o","t"," ","a"," ","d","a","t","e">>,
          <<"3","1","/","0","2","/","2","0","2","1">>,
          NaN}]

\* datetime.now(): a day, at midnight or later in the day
DlNows ==
    {[date |-> Date(2025, 6, 29), tod |-> 0],
     [date |-> Date(2025, 6, 29), tod |-> 40740]}

DlTables == UNION {[1..n -> DlRowSet] : n \in 0..MaxDlRows}

\* ---- the steps of main

DlRow == dl_rows[dl_idx + 1]

\* lines 93-102: the CSV file is read and the statistics start at zero
DlLoad ==
    /\ dl_pc = "start"
    /\ dl_pc' = "loop"
    /\ dl_stats' = [dl_stats EXCEPT !.total = Len(dl_rows)]
    /\ UNCHANGED <<dl_now, dl_rows, dl_idx, dl_examined, dl_attempted,
                   dl_files, dl_summary>>
    /\ Frame("download")

\* line 93 raises (no such file): the handler of line 136 ends main
DlLoadFails ==
    /\ dl_pc = "start"
    /\ dl_pc' = "nofile"
    /\ UNCHANGED <<dl_now, dl_rows, dl_idx, dl_examined, dl_attempted,
                   dl_stats, dl_files, dl_summary>>
    /\ Frame("download")

\* lines 105-115: a row whose date is before the cutoff is passed over
DlRowFiltered ==
    /\ dl_pc = "loop"
    /\ dl_idx < Len(dl_rows)
    /\ LET report_date == parse_date(DlRow.date_uploaded)
       IN /\ report_date.kind # "raise"
          /\ ~WithinRange(report_date, dl_now)
    /\ dl_examined' = dl_examined \cup {dl_idx + 1}
    /\ dl_idx' = dl_idx + 1
    /\ UNCHANGED <<dl_now, dl_rows, dl_attempted, dl_stats, dl_files,
                   dl_summary, dl_pc>>
    /\ Frame("download")

\* lines 105-126: a row in the date range (or of unknown date) is downloaded
DlRowDownload ==
    /\ dl_pc = "loop"
    /\ dl_idx < Len(dl_rows)
    /\ LET report_date == parse_date(DlRow.date_uploaded)
       IN /\ report_date.kind # "raise"
          /\ WithinRange(report_date, dl_now)
    /\ \E outcome \in DownloadOutcomes :
          /\ dl_stats' =
                IF download_pdf(outcome)
                THEN [dl_stats EXCEPT
                        !.within_date_range = @ + 1,
                        !.download_success = @ + 1]
                ELSE [dl_stats EXCEPT
                        !.within_date_range = @ + 1,
                        !.download_failed = @ + 1]
          /\ dl_files' =
                IF outcome = "ok" THEN Append(dl_files, OutputPath(DlRow))
                ELSE dl_files
    /\ dl_examined' = dl_examined \cup {dl_idx + 1}
    /\ dl_attempted' = Append(dl_attempted, dl_idx + 1)
    /\ dl_idx' = dl_idx + 1
    /\ UNCHANGED <<dl_now, dl_rows, dl_summary, dl_pc>>
    /\ Frame("download")

\* line 112 raises: parse_date is called inside the try of line 91, whose
\* handler (line 136) is outside the for loop, so the loop is left
DlRowRaises ==
    /\ dl_pc = "loop"
    /\ dl_idx < Len(dl_rows)
    /\ parse_date(DlRow.date_uploaded).kind = "raise"
    /\ dl_pc' = "aborted"
    /\ UNCHANGED <<dl_now, dl_rows, dl_idx, dl_examined, dl_attempted,
                   dl_stats, dl_files, dl_summary>>
    /\ Frame("download")

\* lines 128-134: after the last row the summary is printed
DlSummary ==
    /\ dl_pc = "loop"
    /\ dl_idx = Len(dl_rows)
    /\ dl_summary' = TRUE
    /\ dl_pc' = "done"
    /\ UNCHANGED <<dl_now, dl_rows, dl_idx, dl_examined, dl_attempted,
                   dl_stats, dl_files>>
    /\ Frame("download")

NextDl ==
    \/ DlLoad
    \/ DlLoadFails
    \/ DlRowFiltered
    \/ DlRowDownload
    \/ DlRowRaises
    \/ DlSummary

-----------------------------------------------------------------------------
(* parse_date called on one string                                         *)

\* one call parse_date(date_str)
ParseDateCall ==
    /\ pd_result = Pending
    /\ pd_result' = parse_date(date_str)
    /\ UNCHANGED date_str
    /\ Frame("parse_date")

-----------------------------------------------------------------------------
(* Crawling_and_Scraping: get_company_name, extract_quarterly_reports      *)

UrlPrefix ==
    <<"h","t","t","p","s",":","/","/","w","w","w",".","c","s","e",".","l","k",
     "/","p","a","g","e","s","/","c","o","m","p","a","n","y","-","p","r","o","f","i","l","e","/",
     "c","o","m","p","a","n","y","-","p","r","o","f","i","l","e",".","c","o","m","p","o","n","e","n","t",".","h","t","m","l","?",
     "s","y","m","b","o","l","=">>

Origin == <<"h","t","t","p","s",":","/","/","w","w","w",".","c","s","e",".","l","k">>

DIPD == <<"D","I","P","D",".","N","0","0","0","0">>

REXP == <<"R","E","X","P",".","N","0","0","0","0">>

\* get_company_name(url): the name and the symbol, lines 19-27
get_company_name(url) ==
    LET symbol == Split(url, <<"s","y","m","b","o","l","=">>)[2]
    IN IF symbol = DIPD
       THEN [name |-> <<"D","i","p","p","e","d"," ","P","r","o","d","u","c","t","s"," ","P","L","C">>,
             symbol |-> symbol]
       ELSE IF symbol = REXP
       THEN [name |-> <<"R","i","c","h","a","r","d"," ","P","i","e","r","i","s"," ",
                      "E","x","p","o","r","t","s"," ","P","L","C">>,
             symbol |-> symbol]
       ELSE [name |-> <<"U","n","k","n","o","w","n"," ","C","o","m","p","a","n","y"," ","(">> \o symbol \o <<")">>,
             symbol |-> symbol]

\* line 54: f"markdown/{symbol}.md"
MarkdownFileOf(symbol) == <<"m","a","r","k","d","o","w","n","/">> \o symbol \o <<".","m","d">>

\* os.path.basename(path)
Basename(path) == LET parts == SplitOn(path, "/") IN parts[Len(parts)]

\* line 63: the company of a markdown file, from the file's name
CompanyOfFile(markdown_file) ==
    get_company_name(UrlPrefix \o SplitOn(Basename(markdown_file), ".")[1])

\* the three formats tried at line 130, each as the separator and the order
\* of the fields: %d-%m-%Y, %d/%m/%Y, %Y-%m-%d
report_date_formats ==
    << [sep |-> "-", order |-> "dmy"],
       [sep |-> "/", order |-> "dmy"],
       [sep |-> "-", order |-> "ymd"] >>

\* datetime.strptime(word, fmt) for these formats: %d and %m take one or two
\* digits (1-31, 1-12), %Y exactly four; the whole word must be consumed and
\* the date must exist, otherwise ValueError
strptime(word, fmt) ==
    LET parts == SplitOn(word, fmt.sep)
    IN IF Len(parts) # 3 THEN Raise("ValueError")
       ELSE LET dd == IF fmt.order = "dmy" THEN parts[1] ELSE parts[3]
                mm == parts[2]
                yy == IF fmt.order = "dmy" THEN parts[3] ELSE parts[1]
            IN IF /\ AllDigits(dd) /\ Len(dd) \in 1..2 /\ IntOf(dd) \in 1..31
                  /\ AllDigits(mm) /\ Len(mm) \in 1..2 /\ IntOf(mm) \in 1..12
                  /\ AllDigits(yy) /\ Len(yy) = 4
               THEN MkDatetime(IntOf(yy), IntOf(mm), IntOf(dd))
               ELSE Raise("ValueError")

\* lines 139-147
QuarterOfMonth(month) ==
    IF 1 <= month /\ month <= 3 THEN "Q1"
    ELSE IF 4 <= month /\ month <= 6 THEN "Q2"
    ELSE IF 7 <= month /\ month <= 9 THEN "Q3"
    ELSE "Q4"

\* quarter_info and year_info as set at lines 126-127
NoQuarterYear == [quarter |-> "", year |-> <<>>]

\* lines 133-151: the inner loop over the words, from word i on, under one
\* format; it stops at the first word that parses
RECURSIVE ScanWords(_, _, _)
ScanWords(words, fmt, i) ==
    IF i > Len(words) THEN NoQuarterYear
    ELSE LET date_obj == strptime(words[i], fmt)
         IN IF date_obj.kind = "date"
            THEN [quarter |-> QuarterOfMonth(date_obj.month),
                  year |-> StrOfInt(date_obj.year)]
            ELSE ScanWords(words, fmt, i + 1)

\* lines 130-155: the outer loop over the formats, from format f on; it
\* stops after the first format under which a word parsed
RECURSIVE ScanFormats(_, _)
ScanFormats(words, f) ==
    IF f > Len(report_date_formats) THEN NoQuarterYear
    ELSE LET found == ScanWords(words, report_date_formats[f], 1)
         IN IF found.year # <<>> THEN found
            ELSE ScanFormats(words, f + 1)

\* the loops the other way round: the words outside, the formats inside
RECURSIVE ScanTokenMajor(_, _, _)
ScanTokenMajor(words, i, f) ==
    IF i > Len(words) THEN NoQuarterYear
    ELSE IF f > Len(report_date_formats) THEN ScanTokenMajor(words, i + 1, 1)
    ELSE LET found == ScanWords(<<words[i]>>, report_date_formats[f], 1)
         IN IF found.year # <<>> THEN found
            ELSE ScanTokenMajor(words, i, f + 1)

QuarterYearOf_TokenMajor(report_text) ==
    ScanTokenMajor(SplitWords(report_text), 1, 1)

\* lines 125-155: quarter and year of a report text
QuarterYearOf(report_text) == ScanFormats(SplitWords(report_text), 1)

\* lines 115-121: the PDF link of the second cell: only the first <a> with
\* an href is looked at; "" unless its href contains ".pdf"; a href that
\* starts with "/" gets the site origin in front
PdfLinkOf(hrefs) ==
    IF hrefs # <<>> /\ Contains(hrefs[1], <<".","p","d","f">>)
    THEN IF StartsWith(hrefs[1], <<"/">>) THEN Origin \o hrefs[1]
         ELSE hrefs[1]
    ELSE <<>>

\* lines 108-165: the reports one table row adds (none or one)
RowReports(row, company) ==
    IF row.cells >= 2
    THEN LET date_uploaded == SplitOn(row.date_cell, "\n")[1]
             pdf_link == PdfLinkOf(row.hrefs)
             qy == QuarterYearOf(row.report_text)
         IN IF pdf_link # <<>>
            THEN << [company_name |-> company.name,
                     company_symbol |-> company.symbol,
                     date_uploaded |-> date_uploaded,
                     report_text |-> row.report_text,
                     quarter |-> qy.quarter,
                     year |-> qy.year,
                     pdf_url |-> pdf_link] >>
            ELSE <<>>
    ELSE <<>>

\* ---- extract_quarterly_reports on one table

MaxEqRows == 2

\* href targets: site-root-relative, absolute, relative without a leading
\* slash, an HTML page with ".pdf" inside its name, and no ".pdf" at all
Href ==
    [ Root |-> <<"/","c","m","t","/","a",".","p","d","f">>,
      Abs |-> <<"h","t","t","p","s",":","/","/","c","d","n",".","c","s","e",".","l","k","/","a",".","p","d","f">>,
      Rel |-> <<"c","m","t","/","a",".","p","d","f">>,
      PdfInside |-> <<"/","c","m","t","/","a",".","p","d","f",".","h","t","m","l">>,
      Html |-> <<"/","c","m","t","/","a",".","h","t","m","l">> ]

EqDateCell == <<"0","9"," ","F","e","b"," ","2","0","2","5","1","1",":","1","9"," ","P","M">>

\* the rows of the table. hrefs: the href of every <a> of the second cell,
\* in document order.
\* report labels: no date; a date of the second format left of one of the
\* first; a date of the third format left of one of the second; an
\* impossible date and a date of the third format
EqRowSet ==
    [cells : {2}, date_cell : {EqDateCell},
     report_text :
         {<<"I","n","t","e","r","i","m"," ","R","e","p","o","r","t">>,
          <<"3","0","/","0","6","/","2","0","2","0"," ","3","1","-","1","2","-","2","0","2","1">>,
          <<"2","0","2","0","-","0","9","-","3","0"," ","3","0","/","0","6","/","2","0","2","0">>,
          <<"3","1","-","0","2","-","2","0","2","1"," ","2","0","2","0","-","0","9","-","3","0">>},
     hrefs :
         {<<>>, <<Href.Root>>, <<Href.Abs>>, <<Href.Rel>>, <<Href.PdfInside>>,
          <<Href.Html>>, <<Href.Html, Href.Root>>}]
    \cup [cells : {0, 1}, date_cell : {EqDateCell},
          report_text : {<<"Q","u","a","r","t","e","r"," ","e","n","d","e","d"," ","3","1","-","0","3","-","2","0","2","1">>},
          hrefs : {<<Href.Root>>}]

EqTables == UNION {[1..n -> EqRowSet] : n \in 0..MaxEqRows}

\* the markdown file the table was saved in
EqMarkdownFile == MarkdownFileOf(DIPD)

\* lines 107-167: one turn of the loop over the rows
EqRow ==
    /\ eq_idx >= 0
    /\ eq_idx < Len(eq_rows)
    /\ LET new == RowReports(eq_rows[eq_idx + 1],
                             CompanyOfFile(EqMarkdownFile))
       IN /\ reports' = reports \o new
          /\ eq_src' = eq_src \o [i \in 1..Len(new) |-> eq_idx + 1]
    /\ eq_idx' = eq_idx + 1
    /\ UNCHANGED eq_rows
    /\ Frame("extract_reports")

\* lines 102-172 as a whole: the reports of a table, rows from i on
RECURSIVE TableReports(_, _, _)
TableReports(rows, company, i) ==
    IF i > Len(rows) THEN <<>>
    ELSE RowReports(rows[i], company) \o TableReports(rows, company, i + 1)

-----------------------------------------------------------------------------
(* Extraction_Financial_Data: JSON values, determine_quarter, the row      *)

\* JSON values as json.loads returns them. An object is the list of its
\* (key, value) pairs in order, keys distinct, as a Python dict keeps them.
JNull == [t |-> "null"]

JStr(s) == [t |-> "str", v |-> s]

JNum(n) == [t |-> "num", v |-> n]

JList(l) == [t |-> "list", v |-> l]

JObj(pairs) == [t |-> "obj", v |-> pairs]

EmptyObj == JObj(<<>>)

HasKey(pairs, key) == \E i \in 1..Len(pairs) : pairs[i][1] = key

\* d.get(key): None for a key that is absent, whatever the default
DictGet_NoDefault(pairs, key, default) ==
    IF HasKey(pairs, key)
    THEN pairs[CHOOSE i \in 1..Len(pairs) : pairs[i][1] = key][2]
    ELSE JNull

\* d.get(key, default) on the pairs of a dict
DictGet(pairs, key, default) ==
    IF HasKey(pairs, key)
    THEN pairs[CHOOSE i \in 1..Len(pairs) : pairs[i][1] = key][2]
    ELSE default

\* d[key] = value: the value is replaced in place, a new key goes last
DictSet(pairs, key, value) ==
    IF HasKey(pairs, key)
    THEN [i \in 1..Len(pairs) |->
            IF pairs[i][1] = key THEN <<key, value>> ELSE pairs[i]]
    ELSE Append(pairs, <<key, value>>)

\* bool(v): None, "", 0, [] and {} are false
Truthy(v) ==
    CASE v.t = "null" -> FALSE
      [] v.t = "str"  -> v.v # <<>>
      [] v.t = "num"  -> v.v # 0
      [] v.t = "list" -> v.v # <<>>
      [] v.t = "obj"  -> v.v # <<>>

\* re.match(r'^\d{4}-\d{2}-\d{2}$', s): "$" also matches before a final
\* newline
IsoPatternMatch(s) ==
    LET body == IF Len(s) = 11 /\ s[11] = "\n" THEN SubSeq(s, 1, 10) ELSE s
    IN /\ Len(body) = 10
       /\ \A i \in {1, 2, 3, 4, 6, 7, 9, 10} : body[i] \in Digits
       /\ body[5] = "-"
       /\ body[8] = "-"

\* the check of lines 190-196 without the pattern: every non-empty string
\* passes
validate_date_format_AnyString(value) ==
    IF ~Truthy(value) THEN "False"
    ELSE IF value.t # "str" THEN "raise"
    ELSE "True"

\* validate_date_format(date_str), lines 190-196, on a JSON value: a boolean,
\* or "raise" when re.match is handed a value that is not a string
validate_date_format(value) ==
    IF ~Truthy(value) THEN "False"
    ELSE IF value.t # "str" THEN "raise"
    ELSE IF IsoPatternMatch(value.v) THEN "True" ELSE "False"

Unknown == <<"U","n","k","n","o","w","n">>

\* the quarter of lines 208-215 as characters
QuarterChars(month) ==
    IF 1 <= month /\ month <= 3 THEN <<"Q","1">>
    ELSE IF 4 <= month /\ month <= 6 THEN <<"Q","2">>
    ELSE IF 7 <= month /\ month <= 9 THEN <<"Q","3">>
    ELSE <<"Q","4">>

\* determine_quarter(date_str), lines 198-219: "Qk YYYY", "Unknown", or
\* "raise" (validate_date_format is called outside the try)
determine_quarter(value) ==
    IF ~Truthy(value) THEN JStr(Unknown)
    ELSE LET ok == validate_date_format(value)
         IN IF ok = "raise" THEN Raise("TypeError")
            ELSE IF ok = "False" THEN JStr(Unknown)
            ELSE LET date_obj ==
                         strptime(value.v, report_date_formats[3])
                 IN IF date_obj.kind # "date" THEN JStr(Unknown)
                    ELSE JStr(QuarterChars(date_obj.month) \o <<" ">>
                                 \o StrOfInt(date_obj.year))

\* the keys read from the service's JSON object, lines 251-288
Key ==
    [ company_info |-> <<"c","o","m","p","a","n","y","_","i","n","f","o">>,
      name |-> <<"n","a","m","e">>,
      report_type |-> <<"r","e","p","o","r","t","_","t","y","p","e">>,
      reporting_period |-> <<"r","e","p","o","r","t","i","n","g","_","p","e","r","i","o","d">>,
      duration |-> <<"d","u","r","a","t","i","o","n">>,
      end_date |-> <<"e","n","d","_","d","a","t","e">>,
      comparative_end_date |->
          <<"c","o","m","p","a","r","a","t","i","v","e","_","e","n","d","_","d","a",
          "t","e">>,
      audit_status |-> <<"a","u","d","i","t","_","s","t","a","t","u","s">>,
      financial_metrics |-> <<"f","i","n","a","n","c","i","a","l","_","m","e","t","r","i","c","s">>,
      currency_unit |-> <<"c","u","r","r","e","n","c","y","_","u","n","i","t">>,
      current_period |-> <<"c","u","r","r","e","n","t","_","p","e","r","i","o","d">>,
      comparative_period |->
          <<"c","o","m","p","a","r","a","t","i","v","e","_","p","e","r","i","o",
          "d">>,
      yoy_change_pct |-> <<"y","o","y","_","c","h","a","n","g","e","_","p","c","t">>,
      source_information |->
          <<"s","o","u","r","c","e","_","i","n","f","o","r","m","a","t","i","o",
          "n">>,
      statement_used |-> <<"s","t","a","t","e","m","e","n","t","_","u","s","e","d">>,
      page_numbers |-> <<"p","a","g","e","_","n","u","m","b","e","r","s">>,
      revenue |-> <<"r","e","v","e","n","u","e">>,
      gross_profit |-> <<"g","r","o","s","s","_","p","r","o","f","i","t">> ]

\* the fixed columns of a result record, lines 295-307
Col ==
    [ Company |-> <<"C","o","m","p","a","n","y">>,
      Quarter_Year |-> <<"Q","u","a","r","t","e","r","_","Y","e","a","r">>,
      Duration |-> <<"D","u","r","a","t","i","o","n">>,
      Period_End_Date |-> <<"P","e","r","i","o","d","_","E","n","d","_","D","a","t","e">>,
      Comparative_Period_End_Date |->
          <<"C","o","m","p","a","r","a","t","i","v","e","_","P","e","r","i","o","d",
          "_","E","n","d","_","D","a","t","e">>,
      Audit_Status |-> <<"A","u","d","i","t","_","S","t","a","t","u","s">>,
      Currency_Unit |-> <<"C","u","r","r","e","n","c","y","_","U","n","i","t">>,
      Report_Type |-> <<"R","e","p","o","r","t","_","T","y","p","e">>,
      Statement_Used |-> <<"S","t","a","t","e","m","e","n","t","_","U","s","e","d">>,
      Page_Numbers |-> <<"P","a","g","e","_","N","u","m","b","e","r","s">>,
      PDF_Filename |-> <<"P","D","F","_","F","i","l","e","n","a","m","e">> ]

\* the prefixes of lines 311, 315 and 319
Prefix ==
    [ Current |-> <<"C","u","r","r","e","n","t","_">>,
      Comparative |-> <<"C","o","m","p","a","r","a","t","i","v","e","_">>,
      YoY |-> <<"Y","o","Y","_","C","h","a","n","g","e","_","P","c","t","_">> ]

\* the default currency unit of line 274
DefaultCurrencyUnit == <<"R","s","."," ","'","0","0","0">>

IsObj(v) == v.t = "obj"

\* str(v) of a JSON value that is not a list
PyStr(v) ==
    CASE v.t = "null" -> <<"N","o","n","e">>
      [] v.t = "num"  -> StrOfInt(v.v)
      [] v.t = "str"  -> v.v

\* ", ".join(map(str, l))
RECURSIVE JoinComma(_)
JoinComma(l) ==
    IF l = <<>> THEN <<>>
    ELSE IF Len(l) = 1 THEN PyStr(l[1])
    ELSE PyStr(l[1]) \o <<",", " ">> \o JoinComma(Tail(l))

\* lines 289-292
PageNumbersStr(page_numbers) ==
    IF page_numbers.t = "list" THEN JoinComma(page_numbers.v)
    ELSE PyStr(page_numbers)

\* the loop with "value or 0" stored: an absent value becomes zero
RECURSIVE AddPrefixed_NullAsZero(_, _, _, _)
AddPrefixed_NullAsZero(result, prefix, pairs, i) ==
    IF i > Len(pairs) THEN result
    ELSE AddPrefixed_NullAsZero(
             DictSet(result, prefix \o pairs[i][1],
                     IF Truthy(pairs[i][2]) THEN pairs[i][2] ELSE JNum(0)),
             prefix, pairs, i + 1)

\* lines 310-319: one loop "for key, value in section.items():
\* result[prefix + key] = value", from pair i on
RECURSIVE AddPrefixed(_, _, _, _)
AddPrefixed(result, prefix, pairs, i) ==
    IF i > Len(pairs) THEN result
    ELSE AddPrefixed(DictSet(result, prefix \o pairs[i][1], pairs[i][2]),
                     prefix, pairs, i + 1)

\* lines 250-321: the result record built from the service's data, or the
\* exception raised on the way: .get on a section that is not an object,
\* re.match on a date that is not a string, .items() on metrics that are
\* not an object
BuildRow(data, pdf_file) ==
    LET company_info == DictGet(data.v, Key.company_info, EmptyObj)
        reporting_period == DictGet(data.v, Key.reporting_period, EmptyObj)
        financial_metrics == DictGet(data.v, Key.financial_metrics, EmptyObj)
        source_info == DictGet(data.v, Key.source_information, EmptyObj)
    IN IF ~IsObj(company_info) \/ ~IsObj(reporting_period)
       THEN Raise("AttributeError")
       ELSE LET end_date == DictGet(reporting_period.v, Key.end_date,
                                    JStr(<<>>))
                comparative_end_date ==
                    DictGet(reporting_period.v, Key.comparative_end_date,
                            JStr(<<>>))
            IN IF \/ validate_date_format(end_date) = "raise"
                  \/ validate_date_format(comparative_end_date) = "raise"
               THEN Raise("TypeError")
               ELSE IF ~IsObj(financial_metrics) \/ ~IsObj(source_info)
               THEN Raise("AttributeError")
               ELSE LET current_period ==
                            DictGet(financial_metrics.v, Key.current_period,
                                    EmptyObj)
                        comparative_period ==
                            DictGet(financial_metrics.v,
                                    Key.comparative_period, EmptyObj)
                        yoy_change_pct ==
                            DictGet(financial_metrics.v, Key.yoy_change_pct,
                                    EmptyObj)
                        result ==
                            << <<Col.Company,
                                 DictGet(company_info.v, Key.name,
                                         JStr(Unknown))>>,
                               <<Col.Quarter_Year,
                                 determine_quarter(end_date)>>,
                               <<Col.Duration,
                                 DictGet(reporting_period.v, Key.duration,
                                         JStr(Unknown))>>,
                               <<Col.Period_End_Date, end_date>>,
                               <<Col.Comparative_Period_End_Date,
                                 comparative_end_date>>,
                               <<Col.Audit_Status,
                                 DictGet(reporting_period.v,
                                         Key.audit_status, JStr(Unknown))>>,
                               <<Col.Currency_Unit,
                                 DictGet(financial_metrics.v,
                                         Key.currency_unit,
                                         JStr(DefaultCurrencyUnit))>>,
                               <<Col.Report_Type,
                                 DictGet(company_info.v, Key.report_type,
                                         JStr(Unknown))>>,
                               <<Col.Statement_Used,
                                 DictGet(source_info.v, Key.statement_used,
                                         JStr(Unknown))>>,
                               <<Col.Page_Numbers,
                                 JStr(PageNumbersStr(
                                     DictGet(source_info.v, Key.page_numbers,
                                             JList(<<>>))))>>,
                               <<Col.PDF_Filename, JStr(pdf_file)>> >>
                    IN IF \/ ~IsObj(current_period)
                          \/ ~IsObj(comparative_period)
                          \/ ~IsObj(yoy_change_pct)
                       THEN Raise("AttributeError")
                       ELSE [kind |-> "row",
                             row |->
                               AddPrefixed(
                                 AddPrefixed(
                                   AddPrefixed(result, Prefix.Current,
                                               current_period.v, 1),
                                   Prefix.Comparative, comparative_period.v, 1),
                                 Prefix.YoY, yoy_change_pct.v, 1)]

\* ---- the response text of the service. A text is a sequence whose elements
\* are the lexical tokens of JSON, "{", "}", ",", "K" for the member name
\* "k" with its colon, "1" for a number, and "t" for a character of any
\* other text.

\* json's decoder from position i of text t: the value read and the position
\* after it, or a failure. A member name that comes twice keeps its last
\* value, as a Python dict does.
RECURSIVE ParseValueAt(_, _)
RECURSIVE ParseMembersAt(_, _, _)
ParseValueAt(t, i) ==
    IF i > Len(t) THEN [ok |-> FALSE]
    ELSE IF t[i] = "1"
    THEN [ok |-> TRUE, value |-> JNum(1), next |-> i + 1]
    ELSE IF t[i] # "{" THEN [ok |-> FALSE]
    ELSE IF i + 1 <= Len(t) /\ t[i + 1] = "}"
    THEN [ok |-> TRUE, value |-> EmptyObj, next |-> i + 2]
    ELSE ParseMembersAt(t, i + 1, <<>>)

ParseMembersAt(t, i, pairs) ==
    IF i > Len(t) THEN [ok |-> FALSE]
    ELSE IF t[i] # "K" THEN [ok |-> FALSE]
    ELSE LET member == ParseValueAt(t, i + 1)
         IN IF ~member.ok THEN [ok |-> FALSE]
            ELSE IF member.next > Len(t) THEN [ok |-> FALSE]
            ELSE IF t[member.next] = "}"
            THEN [ok |-> TRUE,
                  value |-> JObj(DictSet(pairs, <<"k">>, member.value)),
                  next |-> member.next + 1]
            ELSE IF t[member.next] = ","
            THEN ParseMembersAt(t, member.next + 1,
                                DictSet(pairs, <<"k">>, member.value))
            ELSE [ok |-> FALSE]

\* json.loads(json_str): the value when the whole string is one value,
\* JSONDecodeError otherwise
json_loads(json_str) ==
    LET whole == ParseValueAt(json_str, 1)
    IN IF whole.ok /\ whole.next = Len(json_str) + 1 THEN whole.value
       ELSE Raise("JSONDecodeError")

\* re.search(r'(\{[\s\S]*\})', result_text).group(1): from the first "{" to
\* the last "}" after it, the star being greedy; None when there is no such
\* pair
json_match(result_text) ==
    LET opens == {i \in 1..Len(result_text) : result_text[i] = "{"}
    IN IF opens = {} THEN None
       ELSE LET first == CHOOSE i \in opens : \A j \in opens : i <= j
                closes == {i \in (first + 1)..Len(result_text) :
                              result_text[i] = "}"}
            IN IF closes = {} THEN None
               ELSE LET last == CHOOSE i \in closes : \A j \in closes : j <= i
                    IN SubSeq(result_text, first, last)

\* extract_financial_data_from_pdf, lines 140-188, on what the service
\* answers: the parsed object, or None (here JNull) when the call raised,
\* the text held no {...}, or json.loads failed on it. An answer of kind
\* "text" carries the response text; one of kind "json" stands for a text
\* from which lines 173-177 read the object data.
extract_financial_data_from_pdf(answer) ==
    IF answer.kind = "json" THEN answer.data
    ELSE IF answer.kind = "text"
    THEN LET json_str == json_match(answer.text)
         IN IF json_str = None THEN JNull
            ELSE LET loaded == json_loads(json_str)
                 IN IF loaded = Raise("JSONDecodeError") THEN JNull
                    ELSE loaded
    ELSE JNull

\* ---- the inputs of process_pdfs

MaxPdfs == 2

\* objects json.loads can return; Good is a complete answer
Data ==
    [ Good |->
          JObj(<< <<Key.company_info,
          JObj(<< <<Key.name, JStr(<<"D","i","p","p","e","d"," ","P","r","o","d","u","c","t","s"," ","P","L","C">>)>> >>)>>,
          <<Key.reporting_period,
          JObj(<< <<Key.end_date, JStr(<<"2","0","2","4","-","0","6","-","3","0">>)>>,
          <<Key.comparative_end_date, JStr(<<"2","0","2","3","-","0","6","-","3","0">>)>> >>)>>,
          <<Key.financial_metrics,
          JObj(<< <<Key.current_period,
          JObj(<< <<Key.revenue, JNum(100)>>,
          <<Key.gross_profit, JNull>> >>)>>,
          <<Key.comparative_period,
          JObj(<< <<Key.revenue, JNum(90)>> >>)>>,
          <<Key.yoy_change_pct,
          JObj(<< <<Key.revenue, JNum(11)>> >>)>> >>)>>,
          <<Key.source_information,
          JObj(<< <<Key.page_numbers,
          JList(<<JNum(3), JNum(4)>>)>> >>)>> >>),
    \* no comparative_period section
      NoComparative |->
          JObj(<< <<Key.financial_metrics,
          JObj(<< <<Key.current_period,
          JObj(<< <<Key.revenue, JNum(100)>> >>)>> >>)>> >>),
    \* no current_period section
      NoCurrent |->
          JObj(<< <<Key.financial_metrics,
          JObj(<< <<Key.comparative_period,
          JObj(<< <<Key.revenue, JNum(90)>> >>)>>,
          <<Key.yoy_change_pct,
          JObj(<< <<Key.gross_profit, JNull>> >>)>> >>)>> >>),
    \* "company_info": null
      NullInfo |-> JObj(<< <<Key.company_info, JNull>> >>),
    \* "current_period": null
      NullMetrics |->
          JObj(<< <<Key.financial_metrics,
          JObj(<< <<Key.current_period, JNull>> >>)>> >>),
    \* "end_date": 20240630, a number
      NumberDate |->
          JObj(<< <<Key.reporting_period,
          JObj(<< <<Key.end_date, JNum(20240630)>> >>)>> >>),
    \* a metric named "Period_End_Date" in comparative_period
      DateMetric |->
          JObj(<< <<Key.reporting_period,
          JObj(<< <<Key.end_date, JStr(<<"2","0","2","4","-","0","6","-","3","0">>)>>,
          <<Key.comparative_end_date, JStr(<<"2","0","2","3","-","0","6","-","3","0">>)>> >>)>>,
          <<Key.financial_metrics,
          JObj(<< <<Key.comparative_period,
          JObj(<< <<Col.Period_End_Date, JNum(90)>> >>)>> >>)>> >>) ]

\* what the service answers for one PDF: the call raises, the text holds no
\* {...}, the {...} does not parse, or it parses to an object
PpAnswers ==
    {[kind |-> "error"], [kind |-> "no_json"], [kind |-> "bad_json"]}
    \cup [kind : {"json"},
          data : {Data.Good, Data.NoComparative, Data.NoCurrent, Data.NullInfo,
                  Data.NullMetrics, Data.NumberDate, Data.DateMetric,
                  EmptyObj}]

\* the names of the listing, all different as in a directory
PdfName(i) == <<"r">> \o StrOfInt(i) \o <<".","p","d","f">>

PdfListings ==
    UNION {{[i \in 1..n |-> [name |-> PdfName(i), answer |-> a[i]]] :
               a \in [1..n -> PpAnswers]} : n \in 0..MaxPdfs}

\* ---- the steps of process_pdfs

PpFile == pdf_files[pp_idx + 1]

PpData == extract_financial_data_from_pdf(PpFile.answer)

CallEvent(name) == [ev |-> "call", file |-> name]

SleepEvent == [ev |-> "sleep"]

\* lines 240-249 and 323-327: the service gave no data (or an empty object):
\* no row, then the sleep
PpNoData ==
    /\ pp_pc = "loop"
    /\ pp_idx < Len(pdf_files)
    /\ ~Truthy(PpData)
    /\ pp_log' = pp_log \o <<CallEvent(PpFile.name), SleepEvent>>
    /\ pp_idx' = pp_idx + 1
    /\ UNCHANGED <<pdf_files, results, pp_pc>>
    /\ Frame("process_pdfs")

\* lines 240-327: the row is built and appended, then the sleep
PpRow ==
    /\ pp_pc = "loop"
    /\ pp_idx < Len(pdf_files)
    /\ Truthy(PpData)
    /\ BuildRow(PpData, PpFile.name).kind = "row"
    /\ results' = Append(results, BuildRow(PpData, PpFile.name).row)
    /\ pp_log' = pp_log \o <<CallEvent(PpFile.name), SleepEvent>>
    /\ pp_idx' = pp_idx + 1
    /\ UNCHANGED <<pdf_files, pp_pc>>
    /\ Frame("process_pdfs")

\* the try around the loop instead of inside it: a row that raises ends the
\* loop
PpRowRaises_EndsLoop ==
    /\ pp_pc = "loop"
    /\ pp_idx < Len(pdf_files)
    /\ Truthy(PpData)
    /\ BuildRow(PpData, PpFile.name).kind = "raise"
    /\ pp_log' = Append(pp_log, CallEvent(PpFile.name))
    /\ pp_pc' = "done"
    /\ UNCHANGED <<pdf_files, pp_idx, results>>
    /\ Frame("process_pdfs")

\* lines 240-321 and 329-330: building the row raises; the handler of line
\* 329 is reached without passing the sleep of line 327, and the loop goes on
PpRowRaises ==
    /\ pp_pc = "loop"
    /\ pp_idx < Len(pdf_files)
    /\ Truthy(PpData)
    /\ BuildRow(PpData, PpFile.name).kind = "raise"
    /\ pp_log' = Append(pp_log, CallEvent(PpFile.name))
    /\ pp_idx' = pp_idx + 1
    /\ UNCHANGED <<pdf_files, results, pp_pc>>
    /\ Frame("process_pdfs")

\* lines 332-349: after the last file the results are written
PpFinish ==
    /\ pp_pc = "loop"
    /\ pp_idx = Len(pdf_files)
    /\ pp_pc' = "done"
    /\ UNCHANGED <<pdf_files, pp_idx, pp_log, results>>
    /\ Frame("process_pdfs")

NextPp ==
    \/ PpNoData
    \/ PpRow
    \/ PpRowRaises
    \/ PpFinish

-----------------------------------------------------------------------------
(* Crawling_and_Scraping.main                                              *)

COMPANY_URLS == <<UrlPrefix \o DIPD, UrlPrefix \o REXP>>

\* a saved response: whether it parses as JSON, whether its html holds the
\* quarterly reports tab, and the rows of the tab
ScPage(json_ok, has_tab, rows) ==
    [json_ok |-> json_ok, has_tab |-> has_tab, rows |-> rows]

\* the bodies the scraping service may answer with status 200
ScPages ==
    LET ScRowGood ==
            [cells |-> 2, date_cell |-> EqDateCell,
             report_text |-> <<"Q","u","a","r","t","e","r"," ","e","n","d","e","d"," ","3","1","-","0","3","-","2","0","2","1">>,
             hrefs |-> <<Href.Root>>]
        ScRowNoLink ==
            [cells |-> 2, date_cell |-> EqDateCell,
             report_text |-> <<"I","n","t","e","r","i","m"," ","R","e","p","o","r","t">>,
             hrefs |-> <<>>]
    IN {ScPage(FALSE, FALSE, <<>>),
        ScPage(TRUE, FALSE, <<>>),
        ScPage(TRUE, TRUE, <<ScRowGood>>),
        ScPage(TRUE, TRUE, <<ScRowNoLink, ScRowGood, ScRowGood>>)}

\* extract_quarterly_reports(markdown_file), lines 61-172, on the content
\* of the file
extract_quarterly_reports(markdown_file, content) ==
    IF ~content.json_ok THEN <<>>
    ELSE IF ~content.has_tab THEN <<>>
    ELSE TableReports(content.rows, CompanyOfFile(markdown_file), 1)

ScUrl == COMPANY_URLS[sc_idx + 1]

\* lines 29-59 and 181-183: the service answers 200; the body is saved under
\* the symbol's name and the file joins markdown_files
ScrapeOk ==
    /\ sc_pc = "scrape"
    /\ sc_idx < Len(COMPANY_URLS)
    /\ \E page \in ScPages :
          LET markdown_file == MarkdownFileOf(get_company_name(ScUrl).symbol)
          IN /\ sc_disk' = Append(sc_disk, [file |-> markdown_file,
                                            content |-> page])
             /\ markdown_files' = Append(markdown_files, markdown_file)
    /\ sc_calls' = Append(sc_calls, ScUrl)
    /\ sc_idx' = sc_idx + 1
    /\ UNCHANGED <<sc_xidx, all_reports, sc_csv, sc_pc>>
    /\ Frame("scrape")

\* lines 48-51: another status: None is returned, the loop goes on
ScrapeStatus ==
    /\ sc_pc = "scrape"
    /\ sc_idx < Len(COMPANY_URLS)
    /\ sc_calls' = Append(sc_calls, ScUrl)
    /\ sc_idx' = sc_idx + 1
    /\ UNCHANGED <<sc_disk, markdown_files, sc_xidx, all_reports, sc_csv,
                   sc_pc>>
    /\ Frame("scrape")

\* line 46 raises (connection error, timeout): neither scrape_company_page
\* nor main has a handler, so main ends there
ScrapeRaises ==
    /\ sc_pc = "scrape"
    /\ sc_idx < Len(COMPANY_URLS)
    /\ sc_calls' = Append(sc_calls, ScUrl)
    /\ sc_pc' = "crashed"
    /\ UNCHANGED <<sc_idx, sc_disk, markdown_files, sc_xidx, all_reports,
                   sc_csv>>
    /\ Frame("scrape")

\* line 186: step 1 is over
ScStartExtract ==
    /\ sc_pc = "scrape"
    /\ sc_idx = Len(COMPANY_URLS)
    /\ sc_pc' = "extract"
    /\ UNCHANGED <<sc_idx, sc_calls, sc_disk, markdown_files, sc_xidx,
                   all_reports, sc_csv>>
    /\ Frame("scrape")

\* the content last written to a file
RECURSIVE ReadFile(_, _)
ReadFile(disk, file) ==
    IF disk[Len(disk)].file = file THEN disk[Len(disk)].content
    ELSE ReadFile(SubSeq(disk, 1, Len(disk) - 1), file)

\* lines 186-188: the reports of one markdown file join all_reports
ScExtractFile ==
    /\ sc_pc = "extract"
    /\ sc_xidx < Len(markdown_files)
    /\ LET markdown_file == markdown_files[sc_xidx + 1]
       IN all_reports' = all_reports \o
             extract_quarterly_reports(markdown_file,
                                       ReadFile(sc_disk, markdown_file))
    /\ sc_xidx' = sc_xidx + 1
    /\ UNCHANGED <<sc_idx, sc_calls, sc_disk, markdown_files, sc_csv, sc_pc>>
    /\ Frame("scrape")

\* lines 191-211: the consolidated CSV is written
ScWriteCsv ==
    /\ sc_pc = "extract"
    /\ sc_xidx = Len(markdown_files)
    /\ all_reports # <<>>
    /\ sc_csv' = all_reports
    /\ sc_pc' = "done"
    /\ UNCHANGED <<sc_idx, sc_calls, sc_disk, markdown_files, sc_xidx,
                   all_reports>>
    /\ Frame("scrape")

\* lines 212-213: no report was found, nothing is written
ScNoReports ==
    /\ sc_pc = "extract"
    /\ sc_xidx = Len(markdown_files)
    /\ all_reports = <<>>
    /\ sc_pc' = "done"
    /\ UNCHANGED <<sc_idx, sc_calls, sc_disk, markdown_files, sc_xidx,
                   all_reports, sc_csv>>
    /\ Frame("scrape")

NextSc ==
    \/ ScrapeOk
    \/ ScrapeStatus
    \/ ScrapeRaises
    \/ ScStartExtract
    \/ ScExtractFile
    \/ ScWriteCsv
    \/ ScNoReports

-----------------------------------------------------------------------------
(* Specifications: each runs one part of the pipeline, the others idle     *)

\* the values of the parts that do not run while the part named running does
Idle(running) ==
    /\ IF running = "parse_date" THEN TRUE
       ELSE /\ date_str = <<>>
            /\ pd_result = [kind |-> "idle"]
    /\ IF running = "download" THEN TRUE
       ELSE /\ dl_now = [date |-> Date(2025, 6, 29), tod |-> 0]
            /\ dl_rows = <<>>
            /\ dl_idx = 0
            /\ dl_examined = {}
            /\ dl_attempted = <<>>
            /\ dl_stats = [total |-> 0, within_date_range |-> 0,
                 download_success |-> 0, download_failed |-> 0]
            /\ dl_files = <<>>
            /\ dl_summary = FALSE
            /\ dl_pc = "idle"
    /\ IF running = "scrape" THEN TRUE
       ELSE /\ sc_idx = 0
            /\ sc_calls = <<>>
            /\ sc_disk = <<>>
            /\ markdown_files = <<>>
            /\ sc_xidx = 0
            /\ all_reports = <<>>
            /\ sc_csv = <<>>
            /\ sc_pc = "idle"
    /\ IF running = "extract_reports" THEN TRUE
       ELSE /\ eq_rows = <<>>
            /\ eq_idx = -1
            /\ reports = <<>>
            /\ eq_src = <<>>
    /\ IF running = "process_pdfs" THEN TRUE
       ELSE /\ pdf_files = <<>>
            /\ pp_idx = 0
            /\ pp_log = <<>>
            /\ results = <<>>
            /\ pp_pc = "idle"
    /\ IF running = "calls" THEN TRUE
       ELSE /\ fn_arg = [fn |-> "none"]
            /\ fn_result = [kind |-> "idle"]
    /\ IF running = "session" THEN TRUE
       ELSE /\ ss_df = None
            /\ ss_page = "Dashboard"
            /\ ss_pc = "idle"
            /\ messages = <<>>
            /\ used_keys = {}
            /\ key_counter = 0
            /\ uk_prefix = None
            /\ uk_iter = 0
            /\ uk_returned = <<>>

\* what one call leaves: the exception, or the value returned
FnOutcome(r) ==
    IF "kind" \in DOMAIN r /\ r.kind = "raise" THEN r
    ELSE [kind |-> "return", value |-> r]

\* ---- determine_quarter on one value

\* the values of reporting_period.end_date: null, strings, a number
DqInputs ==
    {JNull, JStr(<<>>), JNum(20240630)}
    \cup {JStr(y \o <<"-">> \o m \o <<"-">> \o d) :
            y \in {<<"0","0","0","0">>, <<"0","9","9","9">>, <<"2","0","2","0">>, <<"2","0","2","4">>},
            m \in {<<"0","0">>, <<"0","1">>, <<"0","3">>, <<"0","4">>, <<"0","6">>, <<"0","7">>, <<"0","9">>, <<"1","0">>, <<"1","2">>, <<"1","3">>},
            d \in {<<"0","0">>, <<"0","1">>, <<"2","9">>, <<"3","1">>}}
    \cup {JStr(x) : x \in {<<"3","0","/","0","6","/","2","0","2","0">>, <<"2","0","2","0","-","6","-","3","0">>, <<"2","0","2","0","-","0","6","-","3","0","\n">>, <<"Q","2"," ","2","0","2","0">>, <<"2","0","2","0","0","6","3","0">>, <<"2","0","2","0","-","0","6","-","3","0","T","0","0",":","0","0">>}}

\* one call determine_quarter(date_str)
DetermineQuarterCall ==
    /\ fn_arg.fn = "determine_quarter"
    /\ fn_result = Pending
    /\ fn_result' = FnOutcome(determine_quarter(fn_arg.date_str))
    /\ UNCHANGED fn_arg
    /\ Frame("calls")

InitParseDate ==
    /\ date_str \in DateInputs
    /\ pd_result = Pending
    /\ Idle("parse_date")

\* parse_date on one string
SpecParseDate == InitParseDate /\ [][ParseDateCall]_vars

InitDownload ==
    /\ dl_now \in DlNows
    /\ dl_rows \in DlTables
    /\ dl_idx = 0
    /\ dl_examined = {}
    /\ dl_attempted = <<>>
    /\ dl_stats = [total |-> 0, within_date_range |-> 0,
       download_success |-> 0, download_failed |-> 0]
    /\ dl_files = <<>>
    /\ dl_summary = FALSE
    /\ dl_pc = "start"
    /\ Idle("download")

\* Download_Reports.main on one report table
SpecDownload == InitDownload /\ [][NextDl]_vars

InitExtractReports ==
    /\ eq_rows \in EqTables
    /\ eq_idx = 0
    /\ reports = <<>>
    /\ eq_src = <<>>
    /\ Idle("extract_reports")

\* extract_quarterly_reports on one table
SpecExtractReports == InitExtractReports /\ [][EqRow]_vars

InitScrape ==
    /\ sc_idx = 0
    /\ sc_calls = <<>>
    /\ sc_disk = <<>>
    /\ markdown_files = <<>>
    /\ sc_xidx = 0
    /\ all_reports = <<>>
    /\ sc_csv = <<>>
    /\ sc_pc = "scrape"
    /\ Idle("scrape")

\* Crawling_and_Scraping.main
SpecScrape == InitScrape /\ [][NextSc]_vars

InitProcessPdfs ==
    /\ pdf_files \in PdfListings
    /\ pp_idx = 0
    /\ pp_log = <<>>
    /\ results = <<>>
    /\ pp_pc = "loop"
    /\ Idle("process_pdfs")

\* Extraction_Financial_Data.process_pdfs on one directory listing
SpecProcessPdfs == InitProcessPdfs /\ [][NextPp]_vars

\* ---- extract_financial_data_from_pdf on one answer of the service

\* the answers: the call raises, or it gives a text of three pieces, each
\* nothing, other text, an object or a lone brace
ExAnswers ==
    LET TextPieces ==
            { <<>>, <<"t">>, <<"{">>, <<"}">>, <<"{", "}">>,
              <<"{", "K", "1", "}">>,
              <<"{", "K", "{", "K", "1", "}", "}">>,
              <<"{", "K", "1", ",", "K", "{", "}", "}">>,
              <<"{", "K", "}">> }
    IN {[kind |-> "error"]}
       \cup {[kind |-> "text", text |-> a \o b \o c] :
               a \in TextPieces, b \in TextPieces, c \in TextPieces}

\* one call extract_financial_data_from_pdf(pdf_path)
ExtractCall ==
    /\ fn_arg.fn = "extract_financial_data_from_pdf"
    /\ fn_result = Pending
    /\ fn_result' = FnOutcome(extract_financial_data_from_pdf(fn_arg.answer))
    /\ UNCHANGED fn_arg
    /\ Frame("calls")

-----------------------------------------------------------------------------
(* StreamlitUI: column resolution of the dashboard, get_common_metrics     *)

\* col.lower()
Lower(col) ==
    LET upper == <<"A","B","C","D","E","F","G","H","I","J","K","L","M","N","O","P","Q","R","S","T","U","V","W","X","Y","Z">>
        lower == <<"a","b","c","d","e","f","g","h","i","j","k","l","m","n","o","p","q","r","s","t","u","v","w","x","y","z">>
    IN [i \in 1..Len(col) |->
          IF \E k \in 1..26 : upper[k] = col[i]
          THEN lower[CHOOSE k \in 1..26 : upper[k] = col[i]]
          ELSE col[i]]

\* the lists without the condition "not 'margin' in col.lower()"
concept_cols_NoExclusion(columns, concept) ==
    LET Keep(col) == Contains(Lower(col), concept)
    IN SelectSeq(columns, Keep)

\* the list comprehensions "[col for col in ... if ...]" of lines 332-334 and 438-439 (and 1130-1135):
\* revenue_cols, gross_profit_cols, operating_profit_cols
concept_cols(columns, concept) ==
    IF concept = <<"g","r","o","s","s","_","p","r","o","f","i","t">>
    THEN LET Keep(col) == /\ Contains(Lower(col), <<"g","r","o","s","s","_","p","r","o","f","i","t">>)
                          /\ ~Contains(Lower(col), <<"m","a","r","g","i","n">>)
         IN SelectSeq(columns, Keep)
    ELSE LET Keep(col) == Contains(Lower(col), concept)
         IN SelectSeq(columns, Keep)

\* the last match where line 338 takes the first
RECURSIVE period_col_Last(_, _)
period_col_Last(cols, period) ==
    IF cols = <<>> THEN None
    ELSE IF Contains(Lower(cols[Len(cols)]), period) THEN cols[Len(cols)]
    ELSE period_col_Last(SubSeq(cols, 1, Len(cols) - 1), period)

\* next((col for col in cols if period in col.lower()), None), lines 338,
\* 349, 383, 450, 476
RECURSIVE period_col(_, _)
period_col(cols, period) ==
    IF cols = <<>> THEN None
    ELSE IF Contains(Lower(Head(cols)), period) THEN Head(cols)
    ELSE period_col(Tail(cols), period)

\* ---- the inputs of the resolution

MaxColumns == 3

\* column names of the metrics table, as written by process_pdfs and as
\* other tables spell them
ColumnNames ==
    { <<"C","u","r","r","e","n","t","_","R","e","v","e","n","u","e">>, <<"C","o","m","p","a","r","a","t","i","v","e","_","R","e","v","e","n","u","e">>, <<"C","u","r","r","e","n","t","_","r","e","v","e","n","u","e">>, <<"C","u","r","r","e","n","t","_","G","r","o","s","s","_","P","r","o","f","i","t","_","M","a","r","g","i","n","_","P","c","t">>, <<"C","u","r","r","e","n","t","_","g","r","o","s","s","_","p","r","o","f","i","t">>, <<"C","o","m","p","a","r","a","t","i","v","e","_","o","p","e","r","a","t","i","n","g","_","p","r","o","f","i","t">>, <<"C","u","r","r","e","n","t","_","o","p","e","r","a","t","i","n","g","_","p","r","o","f","i","t">>, <<"C","o","m","p","a","n","y">> }

\* the column orders: lists of different names
ColumnLists ==
    UNION {{c \in [1..n -> ColumnNames] :
               \A i, j \in 1..n : i # j => c[i] # c[j]} : n \in 0..MaxColumns}

\* one resolution: the list of the concept, then the column of the period
ResolveCall ==
    /\ fn_arg.fn = "resolve"
    /\ fn_result = Pending
    /\ fn_result' = [kind |-> "return",
                     value |-> period_col(concept_cols(fn_arg.columns,
                                                       fn_arg.concept),
                                          fn_arg.period)]
    /\ UNCHANGED fn_arg
    /\ Frame("calls")

\* ---- get_common_metrics

\* the table: whether it has a Company column, and its rows. A row holds its
\* company (NaN for an empty cell) and, for each numeric column, whether the
\* value is there (notna). The numeric columns are those of numeric_cols
\* before line 217, in the order of df.columns.
numeric_cols == << Prefix.Current \o Key.revenue, Col.Page_Numbers,
                   Prefix.Current \o Key.gross_profit >>

\* df['Company'].unique(): the values in order of first appearance, NaN
\* among them
RECURSIVE Unique(_, _)
Unique(rows, seen) ==
    IF rows = <<>> THEN seen
    ELSE IF \E i \in 1..Len(seen) : seen[i] = Head(rows).Company
    THEN Unique(Tail(rows), seen)
    ELSE Unique(Tail(rows), Append(seen, Head(rows).Company))

\* the comparison with ">" where line 234 has ">="
MeetsThreshold_Strict(df, col, company, threshold_pct) ==
    LET company_df == {i \in 1..Len(df.rows) :
                          /\ company # NaN
                          /\ df.rows[i].Company = company}
        non_null_count == Cardinality({i \in company_df : df.rows[i].notna[col]})
    IN /\ company_df # {}
       /\ non_null_count * 100 > threshold_pct * Cardinality(company_df)

\* lines 228-234 for one column and one company: availability >= threshold.
\* No row equals NaN, so company_df is empty for the company NaN, the
\* availability 0 / 0 is nan and the comparison is false.
MeetsThreshold(df, col, company, threshold_pct) ==
    LET company_df == {i \in 1..Len(df.rows) :
                          /\ company # NaN
                          /\ df.rows[i].Company = company}
        non_null_count == Cardinality({i \in company_df : df.rows[i].notna[col]})
    IN /\ company_df # {}
       /\ non_null_count * 100 >= threshold_pct * Cardinality(company_df)

\* get_common_metrics(df, threshold), lines 204-237: the keys of metrics in
\* order; the threshold is given in percent
get_common_metrics(df, threshold_pct) ==
    LET companies == IF df.has_company THEN Unique(df.rows, <<>>)
                     ELSE <<<<"D","a","t","a","s","e","t">>>>
        candidates == LET Keep(col) == col # Col.Page_Numbers
                      IN SelectSeq(numeric_cols, Keep)
    IN IF Len(companies) <= 1 THEN candidates
       ELSE LET Keep(col) ==
                    \A k \in 1..Len(companies) :
                        MeetsThreshold(df, col, companies[k], threshold_pct)
            IN SelectSeq(candidates, Keep)

MaxDfRows == 3

\* the rows of a table
DfRowSet ==
    {r \in [Company : {DIPD, REXP, NaN},
            notna : [{numeric_cols[i] : i \in 1..Len(numeric_cols)}
                        -> BOOLEAN]] :
        r.notna[Col.Page_Numbers]}

\* tables with a Company column, and tables without one
DfTables ==
    [has_company : {TRUE},
     rows : UNION {[1..n -> DfRowSet] : n \in 0..MaxDfRows}]
    \cup [has_company : {FALSE},
          rows : UNION {[1..n -> {r \in DfRowSet : r.Company = NaN}] :
                           n \in 0..1}]

\* one call get_common_metrics(df, threshold)
CommonMetricsCall ==
    /\ fn_arg.fn = "get_common_metrics"
    /\ fn_result = Pending
    /\ fn_result' = [kind |-> "return",
                     value |-> get_common_metrics(fn_arg.df,
                                                  fn_arg.threshold_pct)]
    /\ UNCHANGED fn_arg
    /\ Frame("calls")

\* the calls made, each with its arguments
CallInputs ==
    [fn : {"determine_quarter"}, date_str : DqInputs]
    \cup [fn : {"extract_financial_data_from_pdf"}, answer : ExAnswers]
    \cup [fn : {"resolve"}, columns : ColumnLists,
          concept : {<<"r","e","v","e","n","u","e">>, <<"g","r","o","s","s","_","p","r","o","f","i","t">>, <<"o","p","e","r","a","t","i","n","g","_","p","r","o","f","i","t">>},
          period : {<<"c","u","r","r","e","n","t">>, <<"c","o","m","p","a","r","a","t","i","v","e">>}]
    \cup [fn : {"get_common_metrics"}, df : DfTables,
          threshold_pct : {50, 90}]

NextCalls ==
    \/ DetermineQuarterCall
    \/ ExtractCall
    \/ ResolveCall
    \/ CommonMetricsCall

InitCalls ==
    /\ Idle("calls")
    /\ fn_arg \in CallInputs
    /\ fn_result = Pending

\* one call of one function on one argument list
SpecCalls == InitCalls /\ [][NextCalls]_vars

-----------------------------------------------------------------------------
(* StreamlitUI: one browser session. Every interaction runs the script     *)
(* again from its first line; st.session_state lasts from run to run.      *)

MaxSessionRows == 2
MaxKeyCounter == 3
MaxMessages == 5

\* the tables pd.read_csv can put into st.session_state.df at line 113: with
\* a Company column or without one, the two date columns read as strings
\* (dtype object) that pd.to_datetime can convert or cannot
SessionTables ==
    LET present == [c \in {numeric_cols[i] : i \in 1..Len(numeric_cols)} |-> TRUE]
        absent == [present EXCEPT ![Prefix.Current \o Key.revenue] = FALSE,
                                  ![Prefix.Current \o Key.gross_profit] = FALSE]
        dates == {[Comparative_Period_End_Date |-> "object",
                   Period_End_Date |-> "object"],
                  [Comparative_Period_End_Date |-> "unparseable",
                   Period_End_Date |-> "object"]}
    IN [has_company : {TRUE},
        rows : UNION {[1..n -> {[Company |-> DIPD, notna |-> present],
                                [Company |-> DIPD, notna |-> absent],
                                [Company |-> REXP, notna |-> present]}] :
                         n \in 0..MaxSessionRows},
        dates : dates]
       \cup [has_company : {FALSE},
             rows : UNION {[1..n -> {[Company |-> NaN, notna |-> present],
                                     [Company |-> NaN, notna |-> absent]}] :
                              n \in 0..1},
             dates : dates]

\* lines 240-319 of a run on the Dashboard page: get_common_metrics on the
\* session table (line 211 adds the column Company = 'Dataset' to the table it
\* is given when there is none), the filters, and the detection of the date
\* columns. filtered_df is the session table itself when no company is
\* selected (line 282) and a new table otherwise (line 280); line 316 assigns
\* the converted column to filtered_df. 'Page Number' is no column, so line
\* 255 is not reached.
DashboardTop ==
    /\ ss_pc = "run"
    /\ ss_page = "Dashboard"
    /\ IF ss_df = None
       THEN /\ ss_df' = ss_df
            /\ ss_pc' = "wait"
       ELSE LET common_metrics == get_common_metrics(ss_df, 90)
                df == IF ss_df.has_company THEN ss_df
                      ELSE [ss_df EXCEPT
                              !.has_company = TRUE,
                              !.rows = [i \in 1..Len(ss_df.rows) |->
                                          [ss_df.rows[i] EXCEPT
                                             !.Company = <<"D","a","t","a","s","e","t">>]]]
                companies == {df.rows[i].Company : i \in 1..Len(df.rows)}
            IN \E selected_companies \in SUBSET companies,
                  metrics_selected \in BOOLEAN :
                  LET Keep(r) == r.Company \in selected_companies
                      filtered_rows == IF selected_companies # {}
                                       THEN SelectSeq(df.rows, Keep)
                                       ELSE df.rows
                      shown == /\ common_metrics # <<>>
                               /\ filtered_rows # <<>>
                               /\ metrics_selected
                      date_cols == {c \in DOMAIN df.dates :
                                       df.dates[c] = "datetime64"}
                      converted == [c \in DOMAIN df.dates |->
                                       IF df.dates[c] = "object"
                                       THEN "datetime64" ELSE df.dates[c]]
                  IN /\ ss_df' = IF /\ shown
                                    /\ selected_companies = {}
                                    /\ date_cols = {}
                                 THEN [df EXCEPT !.dates = converted]
                                 ELSE df
                     /\ ss_pc' = IF shown THEN "plots" ELSE "wait"
    /\ UNCHANGED <<ss_page, messages, used_keys, key_counter, uk_prefix,
                   uk_iter, uk_returned>>
    /\ Frame("session")

\* the sidebar buttons of lines 182-188 (a changed widget runs the script
\* again like the button of the page shown)
SwitchPage ==
    /\ ss_pc \in {"wait", "plots", "failed"}
    /\ uk_prefix = None
    /\ \E page \in {"Dashboard", "Chat"} : ss_page' = page
    /\ ss_pc' = "run"
    /\ UNCHANGED <<ss_df, messages, used_keys, key_counter, uk_prefix,
                   uk_iter, uk_returned>>
    /\ Frame("session")

\* the key without the counter
new_key_NoCounter(prefix, counter) == prefix \o <<"_">>

\* f"{prefix}_{st.session_state.key_counter}", line 142
new_key(prefix, counter) == prefix \o <<"_">> \o StrOfInt(counter)

\* a plot of the dashboard asks for its key: get_unique_key(prefix) is
\* entered, lines 138-140
KeyCall ==
    /\ ss_pc = "plots"
    /\ uk_prefix = None
    /\ key_counter < MaxKeyCounter
    /\ \E prefix \in {<<"p">>, <<"p","_","1">>} :
          uk_prefix' = [kind |-> "call", prefix |-> prefix]
    /\ uk_iter' = 0
    /\ UNCHANGED <<ss_df, ss_page, ss_pc, messages, used_keys, key_counter,
                   uk_returned>>
    /\ Frame("session")

\* one turn of the "while True" of lines 140-145
KeyIterate ==
    /\ uk_prefix # None
    /\ key_counter < MaxKeyCounter
    /\ key_counter' = key_counter + 1
    /\ uk_iter' = uk_iter + 1
    /\ IF new_key(uk_prefix.prefix, key_counter') \notin used_keys
       THEN /\ used_keys' = used_keys \cup {new_key(uk_prefix.prefix, key_counter')}
            /\ uk_returned' = Append(uk_returned,
                                     new_key(uk_prefix.prefix, key_counter'))
            /\ uk_prefix' = None
       ELSE UNCHANGED <<used_keys, uk_returned, uk_prefix>>
    /\ UNCHANGED <<ss_df, ss_page, ss_pc, messages>>
    /\ Frame("session")

\* the greeting of lines 1675-1678 and 1735-1738
Greeting == [role |-> "assistant", content |-> "greeting"]

\* lines 1588-1694 of a run on the Chat page: the greeting is put into an
\* empty list; its text reads st.session_state.df.shape, which raises
\* AttributeError when the table is None
RenderChat ==
    /\ ss_pc = "run"
    /\ ss_page = "Chat"
    /\ IF Len(messages) = 0
       THEN IF ss_df = None
            THEN /\ ss_pc' = "failed"
                 /\ UNCHANGED messages
            ELSE /\ messages' = <<Greeting>>
                 /\ ss_pc' = "wait"
       ELSE /\ ss_pc' = "wait"
            /\ UNCHANGED messages
    /\ UNCHANGED <<ss_df, ss_page, used_keys, key_counter, uk_prefix, uk_iter,
                   uk_returned>>
    /\ Frame("session")

\* a question typed into st.chat_input, lines 1727-1731:
\* process_user_message appends the question, then what query_gemini_direct
\* returned (the answer, or the error text of line 1668 when the service
\* failed or client is not defined), then st.rerun()
AskQuestion ==
    /\ ss_pc = "wait"
    /\ ss_page = "Chat"
    /\ Len(messages) + 2 <= MaxMessages
    /\ \E response \in {"answer", "Error querying Gemini"} :
          messages' = messages \o <<[role |-> "user", content |-> "question"],
                                    [role |-> "assistant", content |-> response]>>
    /\ ss_pc' = "run"
    /\ UNCHANGED <<ss_df, ss_page, used_keys, key_counter, uk_prefix, uk_iter,
                   uk_returned>>
    /\ Frame("session")

\* the button "Clear Chat History", lines 1734-1739
ClearChat ==
    /\ ss_pc = "wait"
    /\ ss_page = "Chat"
    /\ IF ss_df = None
       THEN /\ ss_pc' = "failed"
            /\ UNCHANGED messages
       ELSE /\ messages' = <<Greeting>>
            /\ ss_pc' = "run"
    /\ UNCHANGED <<ss_df, ss_page, used_keys, key_counter, uk_prefix, uk_iter,
                   uk_returned>>
    /\ Frame("session")

NextSession ==
    \/ DashboardTop
    \/ SwitchPage
    \/ KeyCall
    \/ KeyIterate
    \/ RenderChat
    \/ AskQuestion
    \/ ClearChat

\* the session after lines 107-130 of its first run
InitSession ==
    /\ Idle("session")
    /\ ss_df \in SessionTables \cup {None}
    /\ ss_page = "Dashboard"
    /\ ss_pc = "run"
    /\ messages = <<>>
    /\ used_keys = {}
    /\ key_counter = 0
    /\ uk_prefix = None
    /\ uk_iter = 0
    /\ uk_returned = <<>>

SpecSession == InitSession /\ [][NextSession]_vars

-----------------------------------------------------------------------------
(* Claims                                                                  *)

\* C1: parse_date never raises: for every string it returns a date or None.
C1_ParseDateNeverRaises ==
    pd_result.kind \in {"pending", "date", "none"}

\* C2: in Download_Reports.main every row of the table is examined (filtered
\* out by date or handed to download_pdf) whatever the other rows hold, and
\* the summary is printed after the last row.
C2_EveryRowExamined ==
    dl_pc \in {"done", "aborted"} =>
        /\ dl_examined = 1..Len(dl_rows)
        /\ dl_summary

\* C3: in Crawling_and_Scraping.main a failed call for one URL (another
\* status, or an exception) costs that URL only: every configured URL is
\* posted, and the reports of the saved pages are extracted and written.
C3_ScrapeFailureIsLocal ==
    sc_pc \in {"done", "crashed"} =>
        /\ sc_calls = COMPANY_URLS
        /\ sc_xidx = Len(markdown_files)
        /\ sc_csv = all_reports

\* the files of the call events of a log, in order
RECURSIVE CallsOf(_)
CallsOf(log) ==
    IF log = <<>> THEN <<>>
    ELSE IF Head(log).ev = "call" THEN <<Head(log).file>> \o CallsOf(Tail(log))
    ELSE CallsOf(Tail(log))

\* a PDF that gives no row: the call fails, the text holds no JSON, the JSON
\* does not parse, or building the row raises
GivesNoRow(file) ==
    \/ file.answer.kind \in {"error", "no_json", "bad_json"}
    \/ /\ file.answer.kind = "json"
       /\ Truthy(file.answer.data)
       /\ BuildRow(file.answer.data, file.name).kind = "raise"

RowFile(row) == DictGet(row, Col.PDF_Filename, JNull).v

\* C4: process_pdfs hands every PDF of the listing to the extraction service
\* exactly once, in listing order; a PDF that gives no row is not retried
\* and stops nothing; the rows keep the listing order and are at most as
\* many as the PDFs.
C4_EachPdfOnceInOrder ==
    /\ CallsOf(pp_log) = [i \in 1..pp_idx |-> pdf_files[i].name]
    /\ pp_pc = "done" => pp_idx = Len(pdf_files)
    /\ \A i \in 1..pp_idx :
          GivesNoRow(pdf_files[i]) =>
              \A k \in 1..Len(results) : RowFile(results[k]) # pdf_files[i].name
    /\ \A k \in 1..Len(results) :
          \E i \in 1..pp_idx : RowFile(results[k]) = pdf_files[i].name
    /\ \A k, l \in 1..Len(results) :
          k < l =>
              \E i, j \in 1..pp_idx :
                  /\ i < j
                  /\ RowFile(results[k]) = pdf_files[i].name
                  /\ RowFile(results[l]) = pdf_files[j].name
    /\ Len(results) <= Len(pdf_files)

\* C4 witness: a finished run of two PDFs in which building the first row
\* raised and the second PDF still gave its row.
C4_Witness ==
    /\ pp_pc = "done"
    /\ Len(pdf_files) = 2
    /\ pdf_files[1].answer.kind = "json"
    /\ Truthy(pdf_files[1].answer.data)
    /\ BuildRow(pdf_files[1].answer.data, pdf_files[1].name).kind = "raise"
    /\ Len(results) = 1
    /\ RowFile(results[1]) = pdf_files[2].name

\* C5: between two consecutive calls of the extraction service the fixed
\* delay elapses, whatever became of the earlier call.
C5_DelayBetweenCalls ==
    \A i \in 1..(Len(pp_log) - 1) :
        pp_log[i].ev = "call" => pp_log[i + 1].ev = "sleep"

\* C6: every retained report has a pdf_url that is not empty and ends in
\* ".pdf".
C6_PdfUrlEndsInPdf ==
    \A i \in 1..Len(reports) :
        /\ reports[i].pdf_url # <<>>
        /\ EndsWith(reports[i].pdf_url, <<".","p","d","f">>)

IsAbsoluteUrl(url) ==
    \/ StartsWith(url, <<"h","t","t","p","s",":","/","/">>)
    \/ StartsWith(url, <<"h","t","t","p",":","/","/">>)

\* C7: every retained report has an absolute pdf_url, whatever the form of
\* the href in the row.
C7_PdfUrlAbsolute ==
    \A i \in 1..Len(reports) : IsAbsoluteUrl(reports[i].pdf_url)

\* the number of reports that came from row k
ReportsOfRow(k) == Cardinality({i \in 1..Len(eq_src) : eq_src[i] = k})

HasPdfLink(row) ==
    \E j \in 1..Len(row.hrefs) : Contains(row.hrefs[j], <<".","p","d","f">>)

\* C8: a row with at least two cells gives exactly one report when its second
\* cell holds a link to a ".pdf" target, at whatever position among the
\* cell's links, and none only when it holds no such link; a row with fewer
\* cells gives none; the reports keep the order of the rows.
C8_OneReportPerLinkedRow ==
    /\ \A k \in 1..eq_idx :
          ReportsOfRow(k) =
              IF eq_rows[k].cells >= 2 /\ HasPdfLink(eq_rows[k]) THEN 1 ELSE 0
    /\ \A i, j \in 1..Len(eq_src) : i < j => eq_src[i] < eq_src[j]

\* C9: every report has its quarter in {Q1, Q2, Q3, Q4, Unknown}; the
\* quarter is Unknown exactly when no year was found.
C9_QuarterInEnum ==
    \A i \in 1..Len(reports) :
        /\ reports[i].quarter \in {"Q1", "Q2", "Q3", "Q4", "Unknown"}
        /\ (reports[i].quarter = "Unknown") <=> (reports[i].year = <<>>)

\* the (format, word) pairs of a report text under which the word parses
ParsingPairs(words) ==
    {p \in (1..Len(report_date_formats)) \X (1..Len(words)) :
        strptime(words[p[2]], report_date_formats[p[1]]).kind = "date"}

\* format first, then position
PairBefore(p, q) == p[1] < q[1] \/ (p[1] = q[1] /\ p[2] < q[2])

\* the quarter of a month: Q1 for 1-3, Q2 for 4-6, Q3 for 7-9, Q4 for 10-12
QuarterName(m) ==
    CASE m \in 1..3   -> "Q1"
      [] m \in 4..6   -> "Q2"
      [] m \in 7..9   -> "Q3"
      [] m \in 10..12 -> "Q4"

\* quarter and year as the first parsing pair gives them
FirstPairQuarterYear(report_text) ==
    LET words == SplitWords(report_text)
        pairs == ParsingPairs(words)
    IN IF pairs = {} THEN [quarter |-> "", year |-> <<>>]
       ELSE LET p == CHOOSE x \in pairs :
                        \A y \in pairs : x = y \/ PairBefore(x, y)
                d == strptime(words[p[2]], report_date_formats[p[1]])
            IN [quarter |-> QuarterName(d.month), year |-> StrOfInt(d.year)]

\* C10: quarter and year of a report are those of the first (format, word)
\* pair that parses, by format priority [%d-%m-%Y, %d/%m/%Y, %Y-%m-%d] and
\* then by position from the left; the quarter of month m is Q1 for 1-3, Q2
\* for 4-6, Q3 for 7-9, Q4 for 10-12.
C10_FirstFormatThenToken ==
    \A i \in 1..Len(reports) :
        LET qy == FirstPairQuarterYear(reports[i].report_text)
        IN /\ reports[i].quarter = qy.quarter
           /\ reports[i].year = qy.year

\* C10 witness: a report whose text holds a word of the second format left
\* of a word of the first format, decided by the word further right.
C10_Witness ==
    \E i \in 1..Len(reports) :
        /\ reports[i].report_text = <<"3","0","/","0","6","/","2","0","2","0"," ",
            "3","1","-","1","2","-","2","0","2","1">>
        /\ reports[i].quarter = "Q4"
        /\ reports[i].year = <<"2","0","2","1">>

\* n in decimal, at least w characters, zeros in front
ZeroPad(n, w) ==
    LET digits == StrOfInt(n)
    IN IF Len(digits) >= w THEN digits
       ELSE [i \in 1..(w - Len(digits)) |-> "0"] \o digits

\* whether s is the YYYY-MM-DD form of a date of the calendar
IsIsoDate(s) ==
    /\ Len(s) = 10
    /\ IsoPatternMatch(s)
    /\ ValidDate(IntOf(SubSeq(s, 1, 4)), IntOf(SubSeq(s, 6, 7)),
                 IntOf(SubSeq(s, 9, 10)))

\* C11: parse_date applied to the YYYY-MM-DD form of a valid calendar date
\* returns that date.
C11_IsoAccepted ==
    (/\ pd_result.kind \notin {"pending", "idle"}
     /\ date_str # NaN
     /\ IsIsoDate(date_str))
    => pd_result = Date(IntOf(SubSeq(date_str, 1, 4)),
                        IntOf(SubSeq(date_str, 6, 7)),
                        IntOf(SubSeq(date_str, 9, 10)))

\* the capitalised three-letter English abbreviations of the months
EnglishMonth ==
    << <<"J","a","n">>, <<"F","e","b">>, <<"M","a","r">>, <<"A","p","r">>, <<"M","a","y">>, <<"J","u","n">>, <<"J","u","l">>, <<"A","u","g">>, <<"S","e","p">>, <<"O","c","t">>, <<"N","o","v">>, <<"D","e","c">> >>

\* the date y-m-d written in the four patterns other than ISO, with each
\* time of day of times
WrittenForms(y, m, d, times) ==
    LET dd == ZeroPad(d, 2)
        yyyy == ZeroPad(y, 4)
        mon == EnglishMonth[m]
    IN {dd \o <<"-">> \o mon \o <<"-">> \o yyyy,
        dd \o <<"/">> \o ZeroPad(m, 2) \o <<"/">> \o yyyy}
       \cup {dd \o <<" ">> \o mon \o <<" ">> \o yyyy \o <<" ">> \o t :
                t \in times}
       \cup {dd \o <<" ">> \o mon \o <<" ">> \o yyyy \o t : t \in times}

\* C12: for every valid calendar date, parse_date applied to the date written
\* as DD-Mon-YYYY, DD/MM/YYYY, DD Mon YYYY HH:MM AM/PM or
\* DD Mon YYYYHH:MM AM/PM returns the date of that day, month and year; the
\* time of day is discarded.
C12_RoundTripNonIso ==
    pd_result.kind \notin {"pending", "idle"}
    => \A y \in {2020, 2021}, m \in 1..12, d \in 1..31 :
           (/\ ValidDate(y, m, d)
            /\ date_str \in WrittenForms(y, m, d, PdParts.Times))
           => pd_result = Date(y, m, d)

\* C12 witness: 30-Jun-2020 and 29/02/2020 are among the strings parsed to
\* their dates.
C12_Witness ==
    \/ /\ date_str = <<"3","0","-","J","u","n","-","2","0","2","0">>
       /\ pd_result = Date(2020, 6, 30)
    \/ /\ date_str = <<"2","9","/","0","2","/","2","0","2","0">>
       /\ pd_result = Date(2020, 2, 29)

Returned(v) == [kind |-> "return", value |-> v]

\* the quarter of month m and year y as the label "Qk y"
QuarterLabel(y, m) ==
    <<"Q">> \o StrOfInt(((m - 1) \div 3) + 1) \o <<" ">> \o StrOfInt(y)

\* C14: determine_quarter returns "Qk YYYY" (k the quarter of the month, YYYY
\* the year as a number in decimal) for every string that matches
\* ^\d{4}-\d{2}-\d{2}$ and is a date of the calendar, and "Unknown", without
\* raising, for every other string and for an absent value.
C14_DetermineQuarter ==
    (/\ fn_arg.fn = "determine_quarter"
     /\ fn_result # Pending
     /\ fn_arg.date_str.t \in {"null", "str"})
    => LET value == fn_arg.date_str
       IN IF value.t = "str" /\ IsIsoDate(value.v)
          THEN fn_result =
                   Returned(JStr(QuarterLabel(IntOf(SubSeq(value.v, 1, 4)),
                                              IntOf(SubSeq(value.v, 6, 7)))))
          ELSE fn_result = Returned(JStr(Unknown))

\* C14 witness: "2024-12-31" gave "Q4 2024", and "2020-13-01", of the format
\* but no date, gave "Unknown".
C14_Witness ==
    \/ /\ fn_arg = [fn |-> "determine_quarter", date_str |-> JStr(<<"2","0","2","4","-","1","2","-","3","1">>)]
       /\ fn_result = Returned(JStr(<<"Q","4"," ","2","0","2","4">>))
    \/ /\ fn_arg = [fn |-> "determine_quarter", date_str |-> JStr(<<"2","0","2","0","-","1","3","-","0","1">>)]
       /\ fn_result = Returned(JStr(Unknown))

\* the value at key in a list of (key, value) pairs, or default
ValueAt(pairs, key, default) ==
    IF \E n \in 1..Len(pairs) : pairs[n][1] = key
    THEN pairs[CHOOSE n \in 1..Len(pairs) : pairs[n][1] = key][2]
    ELSE default

\* the metric sections of an extraction result with their prefixes
MetricSections ==
    { [key |-> Key.current_period, prefix |-> Prefix.Current],
      [key |-> Key.comparative_period, prefix |-> Prefix.Comparative],
      [key |-> Key.yoy_change_pct, prefix |-> Prefix.YoY] }

\* the rows of results that came from file i of the listing
RowsOfFile(i) ==
    {k \in 1..Len(results) : RowFile(results[k]) = pdf_files[i].name}

\* the pairs of metric section sec of data (none for a section that is
\* missing)
SectionPairs(data, sec) ==
    LET financial_metrics == ValueAt(data.v, Key.financial_metrics, EmptyObj)
    IN ValueAt(financial_metrics.v, sec.key, EmptyObj).v

\* the names of the fixed columns of a row
FixedColumns == {Col[c] : c \in DOMAIN Col}

\* the columns of row that carry prefix and are not fixed columns
PrefixedColumns(row, prefix) ==
    {row[j][1] : j \in {n \in 1..Len(row) :
                           /\ StartsWith(row[n][1], prefix)
                           /\ row[n][1] \notin FixedColumns}}

\* an extraction result that lacks a metric section and is otherwise sound:
\* what is present of its parts is an object, its dates are strings
LacksASection(data) ==
    /\ data.t = "obj"
    /\ Truthy(data)
    /\ \A k \in {Key.company_info, Key.reporting_period,
                  Key.financial_metrics, Key.source_information} :
           IsObj(ValueAt(data.v, k, EmptyObj))
    /\ \A k \in {Key.end_date, Key.comparative_end_date} :
           ValueAt(ValueAt(data.v, Key.reporting_period, EmptyObj).v, k,
                   JStr(<<>>)).t = "str"
    /\ LET financial_metrics ==
               ValueAt(data.v, Key.financial_metrics, EmptyObj)
       IN /\ \A sec \in MetricSections :
                 IsObj(ValueAt(financial_metrics.v, sec.key, EmptyObj))
          /\ \E sec \in MetricSections :
                 ~HasKey(financial_metrics.v, sec.key)

\* C15: flattening a result in which a metric section is missing does not
\* fail: the row is produced, it has no metric column with the prefix of a
\* missing section and it has every column of the sections that are present.
C15_MissingSectionTolerated ==
    \A i \in 1..pp_idx :
        (/\ pdf_files[i].answer.kind = "json"
         /\ LacksASection(pdf_files[i].answer.data))
        => LET data == pdf_files[i].answer.data
               financial_metrics ==
                   ValueAt(data.v, Key.financial_metrics, EmptyObj)
           IN /\ Cardinality(RowsOfFile(i)) = 1
              /\ \A k \in RowsOfFile(i), sec \in MetricSections :
                    /\ ~HasKey(financial_metrics.v, sec.key)
                         => PrefixedColumns(results[k], sec.prefix) = {}
                    /\ LET pairs == SectionPairs(data, sec)
                       IN \A n \in 1..Len(pairs) :
                              HasKey(results[k], sec.prefix \o pairs[n][1])

\* C15 witness: a result with no comparative_period and no yoy_change_pct
\* gave a row with its Current_revenue column and no other metric column;
\* a result with no current_period gave a row with no Current_ column.
C15_Witness ==
    /\ pp_idx = 2
    /\ pdf_files[1].answer = [kind |-> "json", data |-> Data.NoComparative]
    /\ pdf_files[2].answer = [kind |-> "json", data |-> Data.NoCurrent]
    /\ Len(results) = 2
    /\ HasKey(results[1], Prefix.Current \o Key.revenue)
    /\ PrefixedColumns(results[1], Prefix.Comparative) = {}
    /\ PrefixedColumns(results[2], Prefix.Current) = {}
    /\ HasKey(results[2], Prefix.Comparative \o Key.revenue)

\* C16: a flattened row holds, for every pair (k, v) of each metric section,
\* the column prefix + k with the value v itself (null stays null, never
\* zero), and no other metric column (a pair whose column has the name of a
\* fixed column is held under that name).
C16_OneColumnPerMetricPair ==
    \A i \in 1..pp_idx :
        \A k \in RowsOfFile(i) :
            LET data == pdf_files[i].answer.data
                row == results[k]
            IN /\ \A sec \in MetricSections :
                     LET pairs == SectionPairs(data, sec)
                     IN /\ \A n \in 1..Len(pairs) :
                              /\ HasKey(row, sec.prefix \o pairs[n][1])
                              /\ ValueAt(row, sec.prefix \o pairs[n][1],
                                         JNum(0)) = pairs[n][2]
                        /\ PrefixedColumns(row, sec.prefix)
                             = {sec.prefix \o pairs[n][1] :
                                    n \in 1..Len(pairs)} \ FixedColumns
               /\ \A j \in 1..Len(row) :
                     \/ row[j][1] \in FixedColumns
                     \/ \E sec \in MetricSections :
                            StartsWith(row[j][1], sec.prefix)

\* C16 witness: the complete answer gave a row whose Current_gross_profit is
\* null, whose Current_revenue is 100 and which has no
\* Comparative_gross_profit column.
C16_Witness ==
    \E k \in 1..Len(results) :
        /\ pdf_files[1].answer = [kind |-> "json", data |-> Data.Good]
        /\ RowFile(results[k]) = pdf_files[1].name
        /\ HasKey(results[k], Prefix.Current \o Key.gross_profit)
        /\ ValueAt(results[k], Prefix.Current \o Key.gross_profit, JNum(0))
               = JNull
        /\ ValueAt(results[k], Prefix.Current \o Key.revenue, JNull)
               = JNum(100)
        /\ ~HasKey(results[k], Prefix.Comparative \o Key.gross_profit)

\* the positions of text at which a well-formed JSON object starts
ObjectStarts(text) ==
    {p \in 1..Len(text) : text[p] = "{" /\ ParseValueAt(text, p).ok}

\* C17: for a response text that holds a well-formed JSON object,
\* extract_financial_data_from_pdf returns the first such object, whatever
\* text comes before or after it; for a text with no such object it returns
\* None; it never raises.
C17_FirstJsonObject ==
    (/\ fn_arg.fn = "extract_financial_data_from_pdf"
     /\ fn_result # Pending
     /\ fn_arg.answer.kind = "text")
    => LET text == fn_arg.answer.text
           starts == ObjectStarts(text)
       IN IF starts = {} THEN fn_result = Returned(JNull)
          ELSE LET p == CHOOSE q \in starts : \A r \in starts : q <= r
               IN fn_result = Returned(ParseValueAt(text, p).value)

\* the positions of the columns whose lower-cased name holds every token
ColumnsWithAll(columns, tokens) ==
    {i \in 1..Len(columns) :
        \A t \in tokens : Contains(Lower(columns[i]), t)}

\* the column at the least position of a set of positions, None for no
\* position
FirstColumn(columns, positions) ==
    IF positions = {} THEN None
    ELSE columns[CHOOSE i \in positions : \A j \in positions : i <= j]

\* C18: for a concept (revenue, operating_profit) and a period (current,
\* comparative) the resolution returns the first column, in the stored
\* order, whose lower-cased name holds both tokens, and None when there is
\* no such column.
C18_FirstColumnWithBothTokens ==
    (/\ fn_arg.fn = "resolve"
     /\ fn_result # Pending
     /\ fn_arg.concept # <<"g","r","o","s","s","_","p","r","o","f","i","t">>)
    => fn_result =
           Returned(FirstColumn(fn_arg.columns,
                                ColumnsWithAll(fn_arg.columns,
                                               {fn_arg.concept,
                                                fn_arg.period})))

\* C18 witness: of Comparative_Revenue, Current_revenue, Current_Revenue, the
\* second is the current revenue column.
C18_Witness ==
    /\ fn_arg = [fn |-> "resolve",
                 columns |-> <<<<"C","o","m","p","a","r","a","t","i","v","e","_","R","e","v","e","n","u","e">>, <<"C","u","r","r","e","n","t","_","r","e","v","e","n","u","e">>, <<"C","u","r","r","e","n","t","_","R","e","v","e","n","u","e">>>>,
                 concept |-> <<"r","e","v","e","n","u","e">>, period |-> <<"c","u","r","r","e","n","t">>]
    /\ fn_result = Returned(<<"C","u","r","r","e","n","t","_","r","e","v","e","n","u","e">>)

\* C19: a column whose lower-cased name holds "margin" is never the column
\* resolved for gross_profit: the resolution returns the first column that
\* holds gross_profit and the period and not margin, and None when every
\* gross_profit column is a margin column.
C19_MarginExcluded ==
    (/\ fn_arg.fn = "resolve"
     /\ fn_result # Pending
     /\ fn_arg.concept = <<"g","r","o","s","s","_","p","r","o","f","i","t">>)
    => LET candidates ==
               {i \in ColumnsWithAll(fn_arg.columns,
                                     {<<"g","r","o","s","s","_","p","r","o","f","i","t">>, fn_arg.period}) :
                   ~Contains(Lower(fn_arg.columns[i]), <<"m","a","r","g","i","n">>)}
       IN fn_result = Returned(FirstColumn(fn_arg.columns, candidates))

\* C19 witness: the only gross profit column is Current_Gross_Profit_Margin_Pct
\* and no column is resolved.
C19_Witness ==
    /\ fn_arg = [fn |-> "resolve", columns |-> <<<<"C","u","r","r","e","n","t","_","G","r","o","s","s","_","P","r","o","f","i","t","_","M","a","r","g","i","n","_","P","c","t">>>>,
                 concept |-> <<"g","r","o","s","s","_","p","r","o","f","i","t">>, period |-> <<"c","u","r","r","e","n","t">>]
    /\ fn_result = Returned(None)

\* the distinct companies of the rows of a table
CompaniesOf(df) ==
    {df.rows[i].Company : i \in 1..Len(df.rows)} \ {NaN}

\* whether the values of col that are there are at least threshold_pct
\* percent of the rows of company
Available(df, col, company, threshold_pct) ==
    LET mine == {i \in 1..Len(df.rows) : df.rows[i].Company = company}
        there == {i \in mine : df.rows[i].notna[col]}
    IN Cardinality(there) * 100 >= threshold_pct * Cardinality(mine)

\* C20: for a table with two or more distinct companies get_common_metrics
\* includes a numeric column other than Page_Numbers exactly when its share
\* of values that are there is at least the threshold within the rows of
\* every company.
C20_CommonMetricsThreshold ==
    (/\ fn_arg.fn = "get_common_metrics"
     /\ fn_result # Pending
     /\ fn_arg.df.has_company
     /\ Cardinality(CompaniesOf(fn_arg.df)) >= 2)
    => LET included == {fn_result.value[i] :
                           i \in 1..Len(fn_result.value)}
       IN /\ Col.Page_Numbers \notin included
          /\ \A n \in 1..Len(numeric_cols) :
                numeric_cols[n] # Col.Page_Numbers
                => (numeric_cols[n] \in included
                    <=> \A company \in CompaniesOf(fn_arg.df) :
                            Available(fn_arg.df, numeric_cols[n], company,
                                      fn_arg.threshold_pct))

\* the rows of each entity group of a table: the rows of one company, or all
\* the rows of a table that has no Company column
GroupsOf(df) ==
    IF df.has_company
    THEN {{i \in 1..Len(df.rows) : df.rows[i].Company = company} :
             company \in CompaniesOf(df)}
    ELSE {1..Len(df.rows)}

\* C21: whatever the number of distinct companies of the table (one, none,
\* no Company column), every column returned by get_common_metrics has a
\* share of values that are there of at least the threshold in every entity
\* group.
C21_ReturnedMeetThreshold ==
    (/\ fn_arg.fn = "get_common_metrics"
     /\ fn_result # Pending)
    => \A n \in 1..Len(fn_result.value) :
          \A group \in GroupsOf(fn_arg.df) :
              Cardinality({i \in group :
                              fn_arg.df.rows[i].notna[fn_result.value[n]]}) * 100
                  >= fn_arg.threshold_pct * Cardinality(group)

\* C22: metric resolution is pure: a run of the dashboard (get_common_metrics,
\* the filters, the detection of the date columns) leaves the session table
\* as it was loaded, for every table and every selection.
C22_SessionTableUnchanged ==
    [][ss_df' = ss_df]_vars

\* C23: every record extracted carries the company_name and company_symbol
\* that get_company_name derives from one of the configured URLs: the symbol
\* survives the round trip through the name of the saved file.
C23_SymbolRoundTrip ==
    \A k \in 1..Len(all_reports) :
        \E u \in 1..Len(COMPANY_URLS) :
            /\ all_reports[k].company_symbol
                   = get_company_name(COMPANY_URLS[u]).symbol
            /\ all_reports[k].company_name
                   = get_company_name(COMPANY_URLS[u]).name

\* the fixed columns of the row of an extraction result, each with the value
\* its non-metric sections give (lines 251-307)
NonMetricFields(data, pdf_file) ==
    LET company_info == ValueAt(data.v, Key.company_info, EmptyObj)
        reporting_period == ValueAt(data.v, Key.reporting_period, EmptyObj)
        financial_metrics == ValueAt(data.v, Key.financial_metrics, EmptyObj)
        source_info == ValueAt(data.v, Key.source_information, EmptyObj)
        end_date == ValueAt(reporting_period.v, Key.end_date, JStr(<<>>))
    IN << <<Col.Company, ValueAt(company_info.v, Key.name, JStr(Unknown))>>,
          <<Col.Quarter_Year, determine_quarter(end_date)>>,
          <<Col.Duration,
            ValueAt(reporting_period.v, Key.duration, JStr(Unknown))>>,
          <<Col.Period_End_Date, end_date>>,
          <<Col.Comparative_Period_End_Date,
            ValueAt(reporting_period.v, Key.comparative_end_date, JStr(<<>>))>>,
          <<Col.Audit_Status,
            ValueAt(reporting_period.v, Key.audit_status, JStr(Unknown))>>,
          <<Col.Currency_Unit,
            ValueAt(financial_metrics.v, Key.currency_unit,
                    JStr(DefaultCurrencyUnit))>>,
          <<Col.Report_Type,
            ValueAt(company_info.v, Key.report_type, JStr(Unknown))>>,
          <<Col.Statement_Used,
            ValueAt(source_info.v, Key.statement_used, JStr(Unknown))>>,
          <<Col.Page_Numbers,
            JStr(PageNumbersStr(ValueAt(source_info.v, Key.page_numbers,
                                        JList(<<>>))))>>,
          <<Col.PDF_Filename, JStr(pdf_file)>> >>

\* C24: flattening never overwrites a non-metric field: in every row of
\* results each of the eleven fixed columns holds the value derived from the
\* non-metric sections, whatever the names of the metric keys.
C24_FixedColumnsKept ==
    \A i \in 1..pp_idx :
        \A k \in RowsOfFile(i) :
            LET fields == NonMetricFields(pdf_files[i].answer.data,
                                          pdf_files[i].name)
            IN \A n \in 1..Len(fields) :
                  ValueAt(results[k], fields[n][1], None) = fields[n][2]

\* the metric sections of data that are present but null, all of them when
\* financial_metrics itself is null
NullSections(data) ==
    LET financial_metrics == ValueAt(data.v, Key.financial_metrics, EmptyObj)
    IN IF financial_metrics = JNull THEN MetricSections
       ELSE IF ~IsObj(financial_metrics) THEN {}
       ELSE {sec \in MetricSections :
                ValueAt(financial_metrics.v, sec.key, EmptyObj) = JNull}

\* C25: a result in which a metric section, or financial_metrics, is null is
\* flattened like one in which it is missing: one row is produced for the
\* PDF, with no column of the null section's prefix and every column of the
\* other sections.
C25_NullSectionTolerated ==
    \A i \in 1..pp_idx :
        (/\ pdf_files[i].answer.kind = "json"
         /\ pdf_files[i].answer.data.t = "obj"
         /\ NullSections(pdf_files[i].answer.data) # {})
        => LET data == pdf_files[i].answer.data
           IN /\ Cardinality(RowsOfFile(i)) = 1
              /\ \A k \in RowsOfFile(i), sec \in MetricSections :
                    IF sec \in NullSections(data)
                    THEN PrefixedColumns(results[k], sec.prefix) = {}
                    ELSE LET pairs == SectionPairs(data, sec)
                         IN \A n \in 1..Len(pairs) :
                                HasKey(results[k], sec.prefix \o pairs[n][1])

\* the month written in a string that starts DD/MM/ or DD, a separator and a
\* month name: its number, 0 for a name that is no English abbreviation
WrittenMonth(str) ==
    IF str[3] = "/" THEN IntOf(SubSeq(str, 4, 5))
    ELSE IF \E m \in 1..12 : EnglishMonth[m] = SubSeq(str, 4, 6)
    THEN CHOOSE m \in 1..12 : EnglishMonth[m] = SubSeq(str, 4, 6)
    ELSE 0

\* C26: whenever parse_date returns a date, its day, month and year are the
\* ones written in the input string; a DD/MM/YYYY string whose month is not
\* 01-12 never gives a date of some other month.
C26_DateAsWritten ==
    pd_result.kind = "date"
    => /\ pd_result.day = IntOf(SubSeq(date_str, 1, 2))
       /\ pd_result.month = WrittenMonth(date_str)
       /\ pd_result.year = IF date_str[3] = "/"
                           THEN IntOf(SubSeq(date_str, 7, 10))
                           ELSE IntOf(SubSeq(date_str, 8, 11))

\* whether the upload date of row i, at midnight as parse_date returns it, is
\* not earlier than the cutoff, the instant 5 x 365 days before now (both in
\* seconds counted from midnight of the day 5 x 365 days before today)
UploadNotBeforeCutoff(i) ==
    (Ordinal(parse_date(dl_rows[i].date_uploaded))
        - (Ordinal(dl_now.date) - 5 * 365)) * 86400 >= dl_now.tod

\* C27: a row is handed to download_pdf exactly when parse_date returned None
\* for its upload date or the date is not earlier than the cutoff; after a
\* completed run within_date_range = download_success + download_failed,
\* within_date_range <= total, and no row has been counted twice.
C27_DownloadedIffInRange ==
    /\ \A i \in dl_examined :
          (\E n \in 1..Len(dl_attempted) : dl_attempted[n] = i)
          <=> \/ parse_date(dl_rows[i].date_uploaded) = None
              \/ UploadNotBeforeCutoff(i)
    /\ dl_pc = "done"
       => /\ dl_stats.within_date_range
                = dl_stats.download_success + dl_stats.download_failed
          /\ dl_stats.within_date_range <= dl_stats.total
          /\ dl_stats.within_date_range = Len(dl_attempted)
          /\ \A m, n \in 1..Len(dl_attempted) :
                dl_attempted[m] = dl_attempted[n] => m = n

\* C27 witness: a completed run, now being 11:19 on 29 Jun 2025, in which the
\* report of 30 Jun 2020 (the day of the cutoff) was passed over and the one
\* with no date was downloaded.
C27_Witness ==
    /\ dl_pc = "done"
    /\ dl_now.tod > 0
    /\ Len(dl_rows) = 2
    /\ dl_rows[1].date_uploaded = <<"3","0"," ","J","u","n"," ","2","0","2","0","1","1",":","1","9"," ","P","M">>
    /\ dl_rows[2].date_uploaded = <<"n","o","t"," ","a"," ","d","a","t","e">>
    /\ dl_attempted = <<2>>
    /\ dl_stats.within_date_range = 1

\* C28: every downloaded report is stored in its own file: no two downloads
\* of a run write the same output path, so the number of different files
\* written is download_success.
C28_OneFilePerDownload ==
    /\ \A m, n \in 1..Len(dl_files) : dl_files[m] = dl_files[n] => m = n
    /\ Cardinality({dl_files[n] : n \in 1..Len(dl_files)})
           = dl_stats.download_success

\* C29: in one session, across the runs of the script, get_unique_key never
\* returns a key it has returned before; every call ends (on the first turn
\* of its loop), key_counter grows by at least one per call, and every key
\* returned is in used_keys.
C29_KeysUnique ==
    /\ \A m, n \in 1..Len(uk_returned) :
          uk_returned[m] = uk_returned[n] => m = n
    /\ \A n \in 1..Len(uk_returned) : uk_returned[n] \in used_keys
    /\ uk_prefix # None => uk_iter = 0
    /\ key_counter >= Len(uk_returned)

\* C29 witness: three calls with the prefixes p, p_1 and p returned p_1,
\* p_1_2 and p_3.
C29_Witness ==
    /\ uk_returned = << <<"p","_","1">>, <<"p","_","1","_","2">>,
                        <<"p","_","3">> >>
    /\ key_counter = 3
    /\ uk_prefix = None

\* C30: on the chat page, once a run of the script is over, messages is not
\* empty, starts with the assistant greeting, alternates assistant / user and
\* ends with an assistant message, after any sequence of renders, questions,
\* clearings and page switches.
C30_ChatHistoryShape ==
    (ss_page = "Chat" /\ ss_pc \in {"wait", "failed"})
    => /\ Len(messages) >= 1
       /\ messages[1] = Greeting
       /\ \A n \in 1..Len(messages) :
             messages[n].role = IF n % 2 = 1 THEN "assistant" ELSE "user"
       /\ messages[Len(messages)].role = "assistant"

=============================================================================
